---------------------------- MODULE Spec2Model ----------------------------
(***************************************************************************)
(* A model of Emyzelium (src/emyzelium.py): Etale, Ehypha, Efunguz and     *)
(* Ecataloguz over ZeroMQ sockets.                                         *)
(*                                                                         *)
(* Python values are modelled as follows.                                  *)
(*   str    a sequence of Unicode code points (naturals)                   *)
(*   bytes  a sequence of naturals in 0..255                               *)
(*   dict   an insertion-ordered sequence of <<key, value>> pairs with     *)
(*          unique keys (the iteration order of a CPython >= 3.6 dict);    *)
(*          the etales dict, whose iteration order no code path observes,  *)
(*          is a function on its set of titles                             *)
(*   set    a set                                                          *)
(*   None   <<-1>>, which is no str                                        *)
(* A ZeroMQ multipart message is a sequence of frames (bytes).             *)
(***************************************************************************)
EXTENDS Integers, Sequences, FiniteSets, Bags, TLC

(***************************************************************************)
(* Generic helpers.                                                        *)
(***************************************************************************)
None == <<0 - 1>>

Min(a, b) == IF a <= b THEN a ELSE b

Max(a, b) == IF a >= b THEN a ELSE b

Range(s) == {s[i] : i \in 1..Len(s)}

\* b is a prefix of s
IsPrefix(b, s) == Len(b) <= Len(s) /\ SubSeq(s, 1, Len(b)) = b

\* The printable ASCII characters: code points 32..95 and 97..126, in order.
AsciiLow == " !\"#$%&'()*+,-./0123456789:;<=>?@ABCDEFGHIJKLMNOPQRSTUVWXYZ[\\]^_"

AsciiHigh == "abcdefghijklmnopqrstuvwxyz{|}~"

\* ord(c) of a one-character literal
Ord(c) ==
    IF \E n \in 32..95 : SubSeq(AsciiLow, n - 31, n - 31) = c
    THEN CHOOSE n \in 32..95 : SubSeq(AsciiLow, n - 31, n - 31) = c
    ELSE CHOOSE n \in 97..126 : SubSeq(AsciiHigh, n - 96, n - 96) = c

\* A Python str literal as its sequence of code points.
Str(lit) == [i \in 1..Len(lit) |-> Ord(SubSeq(lit, i, i))]

(***************************************************************************)
(* Python dict as an insertion-ordered sequence of <<key, value>> pairs.   *)
(***************************************************************************)
DictKeys(d) == {d[i][1] : i \in 1..Len(d)}

DictHas(d, k) == \E i \in 1..Len(d) : d[i][1] = k

DictGet(d, k) == d[CHOOSE i \in 1..Len(d) : d[i][1] = k][2]

\* d[k] = v: an existing key keeps its position, a new key goes last
DictPut(d, k, v) ==
    IF DictHas(d, k)
    THEN [i \in 1..Len(d) |-> IF d[i][1] = k THEN <<k, v>> ELSE d[i]]
    ELSE Append(d, <<k, v>>)

\* del d[k]
DictDel(d, k) == SelectSeq(d, LAMBDA e : e[1] # k)

(***************************************************************************)
(* Constants of the source.                                                *)
(***************************************************************************)
EW_OK == 0

EW_ALREADY_PRESENT == 1

EW_ALREADY_ABSENT == 2

EW_ALREADY_PAUSED == 3

EW_ALREADY_RESUMED == 4

EW_ABSENT == 5

KEY_Z85_LEN == 40

KEY_BIN_LEN == 32

ROUTING_ID_PUBSUB == Str("pubsub")

ROUTING_ID_BEACON == Str("beacon")

(***************************************************************************)
(* cut_pad_str(src, length): src[:length] right-padded with spaces.        *)
(***************************************************************************)
Spaces(n) == [i \in 1..n |-> 32]

\* A cut_pad_str that cuts but does not pad.
cut_pad_str_unpadded(src, length) == SubSeq(src, 1, Min(length, Len(src)))

\* A cut_pad_str that pads but does not cut.
cut_pad_str_uncut(src, length) == src \o Spaces(Max(0, length - Len(src)))

cut_pad_str(src, length) ==
    LET dst == SubSeq(src, 1, Min(length, Len(src)))
    IN  dst \o Spaces(Max(0, length - Len(src)))

(***************************************************************************)
(* str.encode("utf8") and bytes.decode("utf8").  DecodeError stands for    *)
(* the UnicodeDecodeError the decoder raises.                              *)
(***************************************************************************)
DecodeError == <<0 - 2>>

Utf8Char(c) ==
    IF c < 128 THEN <<c>>
    ELSE IF c < 2048 THEN <<192 + (c \div 64), 128 + (c % 64)>>
    ELSE IF c < 65536
         THEN <<224 + (c \div 4096), 128 + ((c \div 64) % 64), 128 + (c % 64)>>
         ELSE <<240 + (c \div 262144), 128 + ((c \div 4096) % 64),
                128 + ((c \div 64) % 64), 128 + (c % 64)>>

RECURSIVE Utf8Encode(_)
Utf8Encode(s) ==
    IF s = <<>> THEN <<>> ELSE Utf8Char(Head(s)) \o Utf8Encode(Tail(s))

IsCont(b) == b >= 128 /\ b <= 191

\* The length of the well-formed UTF-8 sequence at the head of b, 0 if none.
Utf8Width(b) ==
    LET n  == Len(b)
        b1 == b[1]
    IN  IF b1 < 128 THEN 1
        ELSE IF b1 >= 194 /\ b1 <= 223
             THEN IF n >= 2 /\ IsCont(b[2]) THEN 2 ELSE 0
        ELSE IF b1 >= 224 /\ b1 <= 239
             THEN IF /\ n >= 3
                     /\ IsCont(b[2])
                     /\ IsCont(b[3])
                     /\ (b1 = 224 => b[2] >= 160)
                     /\ (b1 = 237 => b[2] <= 159)
                  THEN 3 ELSE 0
        ELSE IF b1 >= 240 /\ b1 <= 244
             THEN IF /\ n >= 4
                     /\ IsCont(b[2])
                     /\ IsCont(b[3])
                     /\ IsCont(b[4])
                     /\ (b1 = 240 => b[2] >= 144)
                     /\ (b1 = 244 => b[2] <= 143)
                  THEN 4 ELSE 0
        ELSE 0

Utf8Point(b, w) ==
    IF w = 1 THEN b[1]
    ELSE IF w = 2 THEN (b[1] - 192) * 64 + (b[2] - 128)
    ELSE IF w = 3 THEN (b[1] - 224) * 4096 + (b[2] - 128) * 64 + (b[3] - 128)
    ELSE (b[1] - 240) * 262144 + (b[2] - 128) * 4096 + (b[3] - 128) * 64
         + (b[4] - 128)

RECURSIVE Utf8Decode(_)
Utf8Decode(b) ==
    IF b = <<>> THEN <<>>
    ELSE LET w == Utf8Width(b)
         IN  IF w = 0 THEN DecodeError
             ELSE LET rest == Utf8Decode(SubSeq(b, w + 1, Len(b)))
                  IN  IF rest = DecodeError THEN DecodeError
                      ELSE <<Utf8Point(b, w)>> \o rest

(***************************************************************************)
(* str.encode("ascii") and bytes.decode("ascii").                          *)
(***************************************************************************)
AsciiEncode(s) == s

AsciiDecode(b) ==
    IF \E i \in 1..Len(b) : b[i] > 127 THEN DecodeError ELSE b

(***************************************************************************)
(* int.to_bytes(n, byteorder="little") and int.from_bytes(.., "little").   *)
(***************************************************************************)
RECURSIVE ToBytesLE(_, _)
ToBytesLE(x, n) ==
    IF n = 0 THEN <<>> ELSE <<x % 256>> \o ToBytesLE(x \div 256, n - 1)

RECURSIVE FromBytesLE(_)
FromBytesLE(b) ==
    IF b = <<>> THEN 0 ELSE Head(b) + 256 * FromBytesLE(Tail(b))

(***************************************************************************)
(* zmq.utils.z85.encode: every 4 bytes, read as a big-endian number, give  *)
(* 5 base-85 digits, most significant first.  The number is divided by     *)
(* long division on its bytes.                                             *)
(***************************************************************************)
Z85Chars == "0123456789abcdefghijklmnopqrstuvwxyzABCDEFGHIJKLMNOPQRSTUVWXYZ.-:+=^!/*?&<>()[]{}@%$#"

\* the code points of the 85 digits
Z85Codes == [d \in 1..85 |-> Ord(SubSeq(Z85Chars, d, d))]

Z85Char(d) == Z85Codes[d + 1]

\* <<quotient bytes, remainder>> of the big-endian number b divided by 85;
\* q holds the quotient bytes so far, carry the running remainder
RECURSIVE DivMod85(_, _, _)
DivMod85(b, carry, q) ==
    IF b = <<>> THEN <<q, carry>>
    ELSE DivMod85(Tail(b), (carry * 256 + Head(b)) % 85,
                  Append(q, (carry * 256 + Head(b)) \div 85))

\* the last n base-85 digits of the big-endian number b, before digits
RECURSIVE Z85Digits(_, _, _)
Z85Digits(b, n, digits) ==
    IF n = 0 THEN digits
    ELSE Z85Digits(DivMod85(b, 0, <<>>)[1], n - 1,
                   <<Z85Char(DivMod85(b, 0, <<>>)[2])>> \o digits)

RECURSIVE Z85EncodeBytes(_)
Z85EncodeBytes(b) ==
    IF Len(b) < 4 THEN <<>>
    ELSE Z85Digits(SubSeq(b, 1, 4), 5, <<>>)
             \o Z85EncodeBytes(SubSeq(b, 5, Len(b)))

\* f"{n}" of a non-negative integer
RECURSIVE DecStr(_)
DecStr(n) ==
    IF n < 10 THEN <<48 + n>> ELSE DecStr(n \div 10) \o <<48 + (n % 10)>>

(***************************************************************************)
(* The peers of the model.  A and B are Efunguz instances, each with the   *)
(* whole state of the class; C is a third key pair that owns no state.     *)
(***************************************************************************)
Peers == {"A", "B"}

\* the key pairs: those of the peers, of C, and of the catalogues K, L and M
KeyPairs == {"A", "B", "C", "K", "L", "M"}

KeySeeds == [A |-> 3, B |-> 5, C |-> 7, K |-> 11, L |-> 13, M |-> 17]

KeySeed(who) == KeySeeds[who]

\* the 32 raw bytes of the CURVE public key of each key pair
PublicKeyBins ==
    [who \in KeyPairs |->
        [i \in 1..KEY_BIN_LEN |-> (KeySeed(who) * i * i) % 256]]

PublicKeyBin(who) == PublicKeyBins[who]

\* the Z85 text of each of these keys, encoded once
Z85Known ==
    [b \in {PublicKeyBins[who] : who \in DOMAIN PublicKeyBins} |->
        Z85EncodeBytes(b)]

\* zmq.utils.z85.encode(b)
Z85Encode(b) == IF b \in DOMAIN Z85Known THEN Z85Known[b] ELSE Z85EncodeBytes(b)

\* Efunguz.publickey of each key pair: the Z85 text of the public key
PublicKeys == [who \in KeyPairs |-> Z85Encode(PublicKeyBin(who))]

PublicKey(who) == PublicKeys[who]

PeerAddresses == [p \in Peers |-> Str("10.0.0.") \o DecStr(KeySeed(p))]

PeerAddress(p) == PeerAddresses[p]

ForeignAddress == Str("10.0.0.9")

DEF_EFUNGI_PUBSUB_PORT == 60847

\* the endpoint at which the publisher socket of each peer is reached
Endpoints ==
    [p \in Peers |->
        Str("tcp://") \o PeerAddress(p) \o Str(":")
            \o DecStr(DEF_EFUNGI_PUBSUB_PORT)]

Endpoint(p) == Endpoints[p]

(***************************************************************************)
(* ZeroMQ SUB socket: counted subscriptions, the connected endpoints, the  *)
(* state of the CURVE handshake and the inbound pipe.  A message is        *)
(* [frames, src]; src is history (what emit_etale was called with, or      *)
(* "raw") and is read by no action.                                        *)
(***************************************************************************)
NewSubSock == [subs |-> EmptyBag, conns |-> {}, auth |-> "none", queue |-> <<>>]

subscribe(sock, topic) == [sock EXCEPT !.subs = @ (+) SetToBag({topic})]

unsubscribe(sock, topic) == [sock EXCEPT !.subs = @ (-) SetToBag({topic})]

connect(sock, endpoint) == [sock EXCEPT !.conns = @ \cup {endpoint}]

\* A disconnect that leaves the connection in place.
disconnect_nothing(sock, endpoint) == sock

disconnect(sock, endpoint) ==
    [sock EXCEPT !.conns = @ \ {endpoint}, !.auth = "none"]

\* the SUB-side filter: the first frame begins with a subscribed topic
Matches(subs, msg) ==
    \E topic \in BagToSet(subs) : IsPrefix(topic, msg.frames[1])

\* the pipe from its first message that passes the filter
RECURSIVE DropUnmatched(_, _)
DropUnmatched(subs, q) ==
    IF q = <<>> \/ Matches(subs, Head(q)) THEN q
    ELSE DropUnmatched(subs, Tail(q))

\* subsock.poll(0) > 0
poll(sock) == DropUnmatched(sock.subs, sock.queue) # <<>>

\* A recv_multipart that takes the newest message of the pipe first.
recv_multipart_newest(sock) ==
    LET q == DropUnmatched(sock.subs, sock.queue)
    IN  <<[sock EXCEPT !.queue = SubSeq(q, 1, Len(q) - 1)], q[Len(q)]>>

\* subsock.recv_multipart(): <<the socket afterwards, the message>>
recv_multipart(sock) ==
    LET q == DropUnmatched(sock.subs, sock.queue)
    IN  <<[sock EXCEPT !.queue = Tail(q)], Head(q)>>

\* the socket after a poll(0) that found nothing
polled_empty(sock) == [sock EXCEPT !.queue = <<>>]

(***************************************************************************)
(* Etale and Ehypha.                                                       *)
(***************************************************************************)
\* An Etale.__init__ whose t_out defaults to 0.
Etale_t_out_zero ==
    [parts |-> <<>>, t_out |-> 0, t_in |-> 0 - 1, paused |-> FALSE]

Etale == [parts |-> <<>>, t_out |-> 0 - 1, t_in |-> 0 - 1, paused |-> FALSE]

Topic(title) == Utf8Encode(title) \o <<0>>

set_connpoint(eh, connpoint) ==
    IF connpoint # eh.connpoint
    THEN LET s1 == IF eh.connpoint # None
                   THEN disconnect(eh.subsock, eh.connpoint)
                   ELSE eh.subsock
             s2 == IF connpoint # None THEN connect(s1, connpoint) ELSE s1
         IN  [eh EXCEPT !.connpoint = connpoint, !.subsock = s2]
    ELSE eh

\* Ehypha.__init__
Ehypha(serverkey, ecatal_forget_interval, connpoint) ==
    set_connpoint([serverkey |-> serverkey,
                   ecatal_forget_interval |-> ecatal_forget_interval,
                   connpoint |-> None,
                   object |-> 0,
                   connpoints_via_ecatals |-> <<>>,
                   subsock |-> NewSubSock,
                   etales |-> [t \in {} |-> Etale]],
                  connpoint)

update_connpoint_via_ecatal(eh, ecatal_publickey, connpoint, t) ==
    [eh EXCEPT !.connpoints_via_ecatals =
                   DictPut(@, ecatal_publickey, <<connpoint, t>>)]

\* A remove_connpoint_via_ecatal that removes nothing.
remove_connpoint_via_ecatal_kept(eh, ecatal_publickey) == eh

remove_connpoint_via_ecatal(eh, ecatal_publickey) ==
    IF DictHas(eh.connpoints_via_ecatals, ecatal_publickey)
    THEN [eh EXCEPT !.connpoints_via_ecatals = DictDel(@, ecatal_publickey)]
    ELSE eh

\* The four etale operations: <<the ehypha afterwards, the status returned>>.
add_etale(eh, title) ==
    IF ~(title \in DOMAIN eh.etales)
    THEN <<[eh EXCEPT !.subsock = subscribe(@, Topic(title)),
                      !.etales = [t \in DOMAIN @ \cup {title} |->
                                     IF t = title THEN Etale ELSE @[t]]],
           EW_OK>>
    ELSE <<eh, EW_ALREADY_PRESENT>>

del_etale(eh, title) ==
    IF title \in DOMAIN eh.etales
    THEN <<[eh EXCEPT !.etales = [t \in DOMAIN @ \ {title} |-> @[t]],
                      !.subsock = unsubscribe(@, Topic(title))],
           EW_OK>>
    ELSE <<eh, EW_ALREADY_ABSENT>>

\* A pause_etale without the test of line 171: it pauses, and unsubscribes,
\* whether the etale is paused already or not.
pause_etale_unchecked(eh, title) ==
    IF title \in DOMAIN eh.etales
    THEN <<[eh EXCEPT !.subsock = unsubscribe(@, Topic(title)),
                      !.etales[title].paused = TRUE],
           EW_OK>>
    ELSE <<eh, EW_ABSENT>>

pause_etale(eh, title) ==
    IF title \in DOMAIN eh.etales
    THEN IF ~eh.etales[title].paused
         THEN <<[eh EXCEPT !.subsock = unsubscribe(@, Topic(title)),
                           !.etales[title].paused = TRUE],
                EW_OK>>
         ELSE <<eh, EW_ALREADY_PAUSED>>
    ELSE <<eh, EW_ABSENT>>

resume_etale(eh, title) ==
    IF title \in DOMAIN eh.etales
    THEN IF eh.etales[title].paused
         THEN <<[eh EXCEPT !.subsock = subscribe(@, Topic(title)),
                           !.etales[title].paused = FALSE],
                EW_OK>>
         ELSE <<eh, EW_ALREADY_RESUMED>>
    ELSE <<eh, EW_ABSENT>>

\* pause_etales / resume_etales: the operation applied to every title
RECURSIVE pause_titles(_, _)
pause_titles(eh, titles) ==
    IF titles = {} THEN eh
    ELSE LET title == CHOOSE t \in titles : TRUE
         IN  pause_titles(pause_etale(eh, title)[1], titles \ {title})

pause_etales(eh) == pause_titles(eh, DOMAIN eh.etales)

RECURSIVE resume_titles(_, _)
resume_titles(eh, titles) ==
    IF titles = {} THEN eh
    ELSE LET title == CHOOSE t \in titles : TRUE
         IN  resume_titles(resume_etale(eh, title)[1], titles \ {title})

resume_etales(eh) == resume_titles(eh, DOMAIN eh.etales)

(***************************************************************************)
(* Ehypha.update, the endpoint vote (lines 209-222).                       *)
(***************************************************************************)
\* whether a report of time t_upd counts at time t
\* A test of line 211 that counts every report, however old.
counts_stale_too(ecatal_forget_interval, t, t_upd) == t_upd <= t

\* A test of line 211 that keeps a report for one tick more.
counts_one_more(ecatal_forget_interval, t, t_upd) ==
    (ecatal_forget_interval < 0) \/ ((t - t_upd) <= ecatal_forget_interval + 1)

\* line 211: the report of time t_upd counts at time t
counts(ecatal_forget_interval, t, t_upd) ==
    (ecatal_forget_interval < 0) \/ ((t - t_upd) <= ecatal_forget_interval)

\* connpoints_votes: the dict built by the loop over the reports
RECURSIVE connpoints_votes(_, _, _, _)
connpoints_votes(reports, ecatal_forget_interval, t, votes) ==
    IF reports = <<>> THEN votes
    ELSE LET cp    == Head(reports)[2][1]
             t_upd == Head(reports)[2][2]
             next  == IF counts(ecatal_forget_interval, t, t_upd)
                      THEN IF DictHas(votes, cp)
                           THEN DictPut(votes, cp, DictGet(votes, cp) + 1)
                           ELSE DictPut(votes, cp, 1)
                      ELSE votes
         IN  connpoints_votes(Tail(reports), ecatal_forget_interval, t, next)

\* A test of line 220 that lets a later endpoint with as many votes win.
beats_or_ties(v, max_v) == v >= max_v

\* line 220: v > max_v
beats(v, max_v) == v > max_v

\* the loop over connpoints_votes.items(): max_v_cp at its end
RECURSIVE max_v_cp(_, _, _)
max_v_cp(votes, max_v, cur_cp) ==
    IF votes = <<>> THEN cur_cp
    ELSE LET cp == Head(votes)[1]
             v  == Head(votes)[2]
         IN  IF beats(v, max_v)
             THEN max_v_cp(Tail(votes), v, cp)
             ELSE max_v_cp(Tail(votes), max_v, cur_cp)

\* An Ehypha.update that takes no vote (lines 209-222 left out).
vote_skipped(eh, t) == eh

vote(eh, t) ==
    LET votes == connpoints_votes(eh.connpoints_via_ecatals,
                                  eh.ecatal_forget_interval, t, <<>>)
    IN  IF Len(votes) > 0
        THEN set_connpoint(eh, max_v_cp(votes, 0, <<>>))
        ELSE eh

(***************************************************************************)
(* Ehypha.update, one message of the drain (lines 225-238):                *)
(* [raised, eh], raised when the statement raises UnicodeDecodeError, eh   *)
(* the ehypha afterwards.                                                  *)
(***************************************************************************)
Returns(eh) == [raised |-> FALSE, eh |-> eh]

\* A check of line 233 that lets a paused etale through.
is_active_ignoring_pause(etale) == etale.paused \in BOOLEAN

\* line 233: not etale.paused
is_active(etale) == ~etale.paused

\* A check of line 235 that accepts a timestamp of any length.
t_out_ok_any_length(t_out_bytes) == Len(t_out_bytes) >= 0

\* line 235: len(t_out_bytes) == 8
t_out_ok(t_out_bytes) == Len(t_out_bytes) = 8

\* A slice of line 236 that starts one frame early, at the timestamp.
payload_from_timestamp(message_parts) ==
    SubSeq(message_parts, 2, Len(message_parts))

\* line 236: message_parts[2:]
payload(message_parts) == SubSeq(message_parts, 3, Len(message_parts))

\* A stamp of line 238 that is never earlier than the emission.
receipt_time_not_before(t, t_out) == Max(t, t_out)

\* line 238: etale.t_in = t, the t of line 207
receipt_time(t, t_out) == t

Raises(eh) == [raised |-> TRUE, eh |-> eh]

ingest(eh, message_parts, t) ==
    IF Len(message_parts) >= 2
    THEN LET topic == message_parts[1]
         IN  IF Len(topic) >= 1
             THEN LET title == Utf8Decode(SubSeq(topic, 1, Len(topic) - 1))
                  IN  IF title = DecodeError THEN Raises(eh)
                      ELSE IF title \in DOMAIN eh.etales
                      THEN IF is_active(eh.etales[title])
                           THEN LET t_out_bytes == message_parts[2]
                                IN  IF t_out_ok(t_out_bytes)
                                    THEN Returns([eh EXCEPT
                                           !.etales[title].parts =
                                               payload(message_parts),
                                           !.etales[title].t_out =
                                               FromBytesLE(t_out_bytes),
                                           !.etales[title].t_in =
                                               receipt_time(t,
                                                 FromBytesLE(t_out_bytes))])
                                    ELSE Returns(eh)
                           ELSE Returns(eh)
                      ELSE Returns(eh)
             ELSE Returns(eh)
    ELSE Returns(eh)

(***************************************************************************)
(* Efunguz.  An instance is a record of the fields of the class, together  *)
(* with the sockets' contents and the position of a running update():      *)
(*   zapsock   the ZAP requests queued on the REP socket, [from, frames]   *)
(*   zapout    the replies sent by the last update()                       *)
(*   objects   how many Ehypha objects the instance has constructed        *)
(*   pc        [at, t, i, msg]: at is "idle" outside update(), "ecatals"   *)
(*             in the loop of line 399 at entry i, "ehyphae" before the    *)
(*             update() of ehypha i, "drain" in its loop of line 224; t    *)
(*             is the local t, msg the message last received in the loop;  *)
(*             left is how many of the messages the SUB sockets held when  *)
(*             the call was entered it has not received yet, -1 once it    *)
(*             has received more than these                                *)
(*             (both are history, read by no action)                       *)
(*   raised    whether the last update() ended by raising                  *)
(***************************************************************************)
NoMsg == [frames |-> <<>>,
          src |-> [emitted |-> FALSE, title |-> <<>>, parts |-> <<>>, t |-> 0]]

Idle ==
    [at |-> "idle", t |-> 0, i |-> 0, msg |-> NoMsg, left |-> 0]

NewPushSock == [conns |-> {}, out |-> <<>>]

\* Efunguz.__init__ down to line 262: no socket is made yet.  init is the
\* socket the constructor makes next, bound says which sockets are bound,
\* and unchecked holds the clients whose handshake with the pub socket
\* found no ZAP handler bound (libzmq then accepts it unasked).
Efunguz_fields(whitelist_publickeys, pubsub_port, beacon_interval, ecatal_forget_interval) ==
    [init |-> "zapsock",
     bound |-> [zapsock |-> FALSE, pubsock |-> FALSE],
     unchecked |-> {},
     whitelist_publickeys |->
         {cut_pad_str(key, KEY_Z85_LEN) : key \in whitelist_publickeys},
     pubsub_port |-> pubsub_port,
     beacon_interval |-> beacon_interval,
     t_last_beacon |-> 0,
     ecatal_forget_interval |-> ecatal_forget_interval,
     ehyphae |-> <<>>,
     zapsock |-> <<>>,
     zapout |-> <<>>,
     ecatals_from |-> <<>>,
     ecatals_to |-> <<>>,
     objects |-> 0,
     pc |-> Idle,
     raised |-> FALSE]

\* A constructor that binds the pub socket first and the ZAP socket after.
Efunguz_init_step_pubsock_first(ef) ==
    IF ef.init = "zapsock"
    THEN [ef EXCEPT !.bound.pubsock = TRUE, !.init = "pubsock"]
    ELSE [ef EXCEPT !.bound.zapsock = TRUE, !.init = "done"]

\* Efunguz.__init__, the next socket: lines 264-266 make and bind the ZAP
\* socket, lines 268-276 make and bind the pub socket
Efunguz_init_step(ef) ==
    IF ef.init = "zapsock"
    THEN [ef EXCEPT !.bound.zapsock = TRUE, !.init = "pubsock"]
    ELSE [ef EXCEPT !.bound.pubsock = TRUE, !.init = "done"]

\* Efunguz.__init__
Efunguz(whitelist_publickeys, pubsub_port, beacon_interval, ecatal_forget_interval) ==
    Efunguz_init_step(Efunguz_init_step(
        Efunguz_fields(whitelist_publickeys, pubsub_port, beacon_interval,
                       ecatal_forget_interval)))

add_whitelist_publickeys(ef, publickeys) ==
    [ef EXCEPT !.whitelist_publickeys =
                   @ \cup {cut_pad_str(key, KEY_Z85_LEN) : key \in publickeys}]

del_whitelist_publickeys(ef, publickeys) ==
    [ef EXCEPT !.whitelist_publickeys =
                   @ \ {cut_pad_str(key, KEY_Z85_LEN) : key \in publickeys}]

\* every socket of the dict socks after subscribe(socket, topic)
subscribe_each(socks, topic) ==
    [i \in 1..Len(socks) |-> <<socks[i][1], subscribe(socks[i][2], topic)>>]

\* A del_ehypha loop (lines 309-310) that unsubscribes no socket.
unsubscribe_none(socks, topic) == socks

\* every socket of the dict socks after unsubscribe(socket, topic)
unsubscribe_each(socks, topic) ==
    [i \in 1..Len(socks) |-> <<socks[i][1], unsubscribe(socks[i][2], topic)>>]

\* add_ehypha .. del_ecatal_to: [ef, value, status]; value is the Ehypha
\* object returned (its number), 0 where the method returns a status only.
\* The optional argument ecatal_forget_interval is <<>> for None, <<n>> for n.
add_ehypha(ef, that_publickey, connpoint, ecatal_forget_interval) ==
    LET serverkey == cut_pad_str(that_publickey, KEY_Z85_LEN)
    IN  IF ~DictHas(ef.ehyphae, serverkey)
        THEN LET efi == IF ecatal_forget_interval = <<>>
                        THEN ef.ecatal_forget_interval
                        ELSE ecatal_forget_interval[1]
                 ehypha == [Ehypha(serverkey, efi, connpoint)
                               EXCEPT !.object = ef.objects + 1]
             IN  [ef |-> [ef EXCEPT
                            !.objects = @ + 1,
                            !.ehyphae = DictPut(@, serverkey, ehypha),
                            !.ecatals_from =
                                subscribe_each(@, AsciiEncode(serverkey))],
                  value |-> ehypha.object,
                  status |-> EW_OK]
        ELSE [ef |-> ef,
              value |-> DictGet(ef.ehyphae, serverkey).object,
              status |-> EW_ALREADY_PRESENT]

del_ehypha(ef, that_publickey) ==
    LET serverkey == cut_pad_str(that_publickey, KEY_Z85_LEN)
    IN  IF DictHas(ef.ehyphae, serverkey)
        THEN [ef |-> [ef EXCEPT
                        !.ehyphae = DictDel(@, serverkey),
                        !.ecatals_from =
                            unsubscribe_each(@, AsciiEncode(serverkey))],
              value |-> 0,
              status |-> EW_OK]
        ELSE [ef |-> ef, value |-> 0, status |-> EW_ALREADY_ABSENT]

\* the SUB socket add_ecatal_from makes: subscribed to every ehypha's key
RECURSIVE SubscribedToAll(_, _)
SubscribedToAll(sock, ehyphae) ==
    IF ehyphae = <<>> THEN sock
    ELSE SubscribedToAll(subscribe(sock, AsciiEncode(Head(ehyphae)[1])),
                         Tail(ehyphae))

add_ecatal_from(ef, that_publickey, connpoint) ==
    LET serverkey == cut_pad_str(that_publickey, KEY_Z85_LEN)
    IN  IF ~DictHas(ef.ecatals_from, serverkey)
        THEN LET subsock ==
                     connect(SubscribedToAll(NewSubSock, ef.ehyphae), connpoint)
             IN  [ef |-> [ef EXCEPT !.ecatals_from =
                                        DictPut(@, serverkey, subsock)],
                  value |-> 0,
                  status |-> EW_OK]
        ELSE [ef |-> ef, value |-> 0, status |-> EW_ALREADY_PRESENT]

del_ecatal_from(ef, that_publickey) ==
    LET serverkey == cut_pad_str(that_publickey, KEY_Z85_LEN)
    IN  IF DictHas(ef.ecatals_from, serverkey)
        THEN [ef |-> [ef EXCEPT
                        !.ecatals_from = DictDel(@, serverkey),
                        !.ehyphae =
                            [i \in 1..Len(@) |->
                                <<@[i][1],
                                  remove_connpoint_via_ecatal(@[i][2],
                                                              serverkey)>>]],
              value |-> 0,
              status |-> EW_OK]
        ELSE [ef |-> ef, value |-> 0, status |-> EW_ALREADY_ABSENT]

add_ecatal_to(ef, that_publickey, connpoint) ==
    LET serverkey == cut_pad_str(that_publickey, KEY_Z85_LEN)
    IN  IF ~DictHas(ef.ecatals_to, serverkey)
        THEN [ef |-> [ef EXCEPT !.ecatals_to =
                         DictPut(@, serverkey,
                                 [NewPushSock EXCEPT !.conns = {connpoint}])],
              value |-> 0,
              status |-> EW_OK]
        ELSE [ef |-> ef, value |-> 0, status |-> EW_ALREADY_PRESENT]

del_ecatal_to(ef, that_publickey) ==
    LET serverkey == cut_pad_str(that_publickey, KEY_Z85_LEN)
    IN  IF DictHas(ef.ecatals_to, serverkey)
        THEN [ef |-> [ef EXCEPT !.ecatals_to = DictDel(@, serverkey)],
              value |-> 0,
              status |-> EW_OK]
        ELSE [ef |-> ef, value |-> 0, status |-> EW_ALREADY_ABSENT]

\* emit_etale: the frames handed to pubsock.send_multipart at time t_out
etale_frames(title, t_out, parts) ==
    LET topic       == Utf8Encode(title) \o <<0>>
        t_out_bytes == ToBytesLE(t_out, 8)
    IN  <<topic>> \o <<t_out_bytes>> \o parts

\* emit_beacon: the frame sent on every push socket; CONFLATE keeps the last
emit_beacon(ef) ==
    LET pubsub_port_b == ToBytesLE(Max(0, Min(65535, ef.pubsub_port)), 2)
    IN  [ef EXCEPT !.ecatals_to =
            [i \in 1..Len(@) |->
                <<@[i][1], [@[i][2] EXCEPT !.out = <<pubsub_port_b>>]>>]]

(***************************************************************************)
(* Efunguz.update, the ZAP drain (lines 381-391): the reply to a request.  *)
(***************************************************************************)
B200 == Str("200")

BOK == Str("OK")

B400 == Str("400")

BFAILED == Str("FAILED")

TcpPrefix == Str("tcp://")

\* A test of line 387 that admits every key.
allowed_anyone(key_s, whitelist_publickeys) ==
    key_s \in whitelist_publickeys \cup {key_s}

\* A test of line 387 that forgets that an empty whitelist admits everybody.
allowed_listed_only(key_s, whitelist_publickeys) ==
    key_s \in whitelist_publickeys

\* line 387: (len(self.whitelist_publickeys) == 0) or (key_s in ...)
allowed(key_s, whitelist_publickeys) ==
    \/ Cardinality(whitelist_publickeys) = 0
    \/ key_s \in whitelist_publickeys

zap_reply(msg_parts, whitelist_publickeys) ==
    LET version  == msg_parts[1]
        sequence == msg_parts[2]
        identity == msg_parts[5]
        key      == msg_parts[7]
        key_b    == AsciiEncode(Z85Encode(key))
        key_s    == AsciiDecode(key_b)
        reply    == <<version, sequence>>
    IN  IF /\ identity = ROUTING_ID_PUBSUB
           /\ allowed(key_s, whitelist_publickeys)
        THEN reply \o <<B200, BOK, key_b, <<>>>>
        ELSE reply \o <<B400, BFAILED, <<>>, <<>>>>

(***************************************************************************)
(* Efunguz.update, one message of a catalogue subscriber (lines 403-413):  *)
(* the ehyphae dict afterwards.                                            *)
(***************************************************************************)
\* A handling of a catalogue message that reports nothing to the ehypha.
rendezvous_ignored(ehyphae, ec_key, msg_parts, t) == ehyphae

\* A test of line 410 that accepts every connpoint.
sane_connpoint_any(connpoint) == Len(connpoint) >= 0

\* line 410: connpoint.startswith("tcp://")
sane_connpoint(connpoint) == IsPrefix(TcpPrefix, connpoint)

rendezvous(ehyphae, ec_key, msg_parts, t) ==
    IF Len(msg_parts) = 2
    THEN LET that_publickey == AsciiDecode(msg_parts[1])
         IN  IF that_publickey = DecodeError THEN ehyphae
             ELSE IF Len(that_publickey) = 40
             THEN IF DictHas(ehyphae, that_publickey)
                  THEN LET connpoint == AsciiDecode(msg_parts[2])
                       IN  IF connpoint = DecodeError THEN ehyphae
                           ELSE IF sane_connpoint(connpoint)
                           THEN DictPut(ehyphae, that_publickey,
                                    update_connpoint_via_ecatal(
                                        DictGet(ehyphae, that_publickey),
                                        ec_key, connpoint, t))
                           ELSE ehyphae
                  ELSE ehyphae
             ELSE ehyphae
    ELSE ehyphae

(***************************************************************************)
(* Ecataloguz.  beacon_recs is the dict of <<connpoint, t_last_beac,       *)
(* comment>> by key.  zapsock is as in Efunguz; zapout holds the replies   *)
(* of the last pass with the handshake each went to.  pullsock and         *)
(* pubsock hold whether they are bound and their sessions: the clients     *)
(* whose handshake was accepted, each with the User-Id and Peer-Address    *)
(* libzmq attaches to its frames.  t_last_pub is the local of run();       *)
(* pubout holds what the last pass of the loop published and publog what  *)
(* its loop of line 545 did, in order.                                     *)
(***************************************************************************)
DEF_ECATAL_BEACON_PORT == 51947

DEF_ECATAL_PUBSUB_PORT == 53791

DEF_ECATAL_DEACTIVATE_INTERVAL == 60000000

DEF_ECATAL_PUBLISH_INTERVAL == 1000000

DEF_ECATAL_IDLE_INTERVAL == 10000

\* lines 426-431: the whitelist and the records of the dict argument
RECURSIVE beacon_whitelist_from(_, _, _)
beacon_whitelist_from(with_comments, publickeys, recs) ==
    IF with_comments = <<>>
    THEN [beacon_whitelist_publickeys |-> publickeys, beacon_recs |-> recs]
    ELSE LET dkey == cut_pad_str(Head(with_comments)[1], KEY_Z85_LEN)
         IN  beacon_whitelist_from(
                 Tail(with_comments), publickeys \cup {dkey},
                 DictPut(recs, dkey,
                         <<<<>>, 0 - 1, Head(with_comments)[2]>>))

\* Ecataloguz.__init__ down to line 447: no socket is made yet.  init,
\* zapsock_bound and unchecked are as in Efunguz.
Ecataloguz_fields(beacon_whitelist_publickeys_with_comments, pubsub_whitelist_publickeys, beacon_port, pubsub_port, deactivate_interval, publish_interval, idle_interval) ==
    LET b == beacon_whitelist_from(beacon_whitelist_publickeys_with_comments,
                                   {}, <<>>)
    IN  [init |-> "zapsock",
         zapsock_bound |-> FALSE,
         unchecked |-> {},
         beacon_whitelist_publickeys |-> b.beacon_whitelist_publickeys,
         beacon_recs |-> b.beacon_recs,
         pubsub_whitelist_publickeys |->
             {cut_pad_str(key, KEY_Z85_LEN) :
                  key \in pubsub_whitelist_publickeys},
         beacon_port |-> beacon_port,
         pubsub_port |-> pubsub_port,
         deactivate_interval |-> deactivate_interval,
         publish_interval |-> publish_interval,
         idle_interval |-> idle_interval,
         zapsock |-> <<>>,
         zapout |-> <<>>,
         pullsock |-> [bound |-> FALSE, sessions |-> {}, queue |-> <<>>],
         pubsock |-> [bound |-> FALSE, sessions |-> {}],
         running |-> FALSE,
         t_last_pub |-> 0,
         pubout |-> <<>>,
         publog |-> <<>>]

\* Ecataloguz.__init__, lines 449-463: the ZAP socket is made and bound,
\* the pull and pub sockets are made and left unbound
Ecataloguz_init_step(ec) ==
    [ec EXCEPT !.zapsock_bound = TRUE, !.init = "done"]

\* Ecataloguz.__init__
Ecataloguz(beacon_whitelist_publickeys_with_comments, pubsub_whitelist_publickeys, beacon_port, pubsub_port, deactivate_interval, publish_interval, idle_interval) ==
    Ecataloguz_init_step(
        Ecataloguz_fields(beacon_whitelist_publickeys_with_comments,
                          pubsub_whitelist_publickeys, beacon_port,
                          pubsub_port, deactivate_interval, publish_interval,
                          idle_interval))

\* line[:-1] of a line of the file
chomp(line) == SubSeq(line, 1, Len(line) - 1)

\* read_beacon_whitelist_publickeys_with_comments; lines is readlines()
RECURSIVE read_beacon_whitelist_publickeys_with_comments(_, _)
read_beacon_whitelist_publickeys_with_comments(ec, lines) ==
    IF lines = <<>> THEN ec
    ELSE LET line == chomp(Head(lines))
         IN  IF Len(line) >= KEY_Z85_LEN
             THEN LET key     == SubSeq(line, 1, KEY_Z85_LEN)
                      comment == IF Len(line) >= KEY_Z85_LEN + 2
                                 THEN SubSeq(line, KEY_Z85_LEN + 2, Len(line))
                                 ELSE <<>>
                  IN  read_beacon_whitelist_publickeys_with_comments(
                          [ec EXCEPT
                             !.beacon_whitelist_publickeys = @ \cup {key},
                             !.beacon_recs =
                                 DictPut(@, key, <<<<>>, 0 - 1, comment>>)],
                          Tail(lines))
             ELSE read_beacon_whitelist_publickeys_with_comments(
                      ec, Tail(lines))

\* read_pubsub_whitelist_publickeys; lines is readlines()
RECURSIVE read_pubsub_whitelist_publickeys(_, _)
read_pubsub_whitelist_publickeys(ec, lines) ==
    IF lines = <<>> THEN ec
    ELSE LET line == chomp(Head(lines))
         IN  IF Len(line) >= KEY_Z85_LEN
             THEN read_pubsub_whitelist_publickeys(
                      [ec EXCEPT !.pubsub_whitelist_publickeys =
                                     @ \cup {SubSeq(line, 1, KEY_Z85_LEN)}],
                      Tail(lines))
             ELSE read_pubsub_whitelist_publickeys(ec, Tail(lines))

\* A test of line 520 that keeps one whitelist for both sockets.
ecatal_allowed_crossed(identity, key_s, beacon_whitelist_publickeys, pubsub_whitelist_publickeys) ==
    /\ identity \in {ROUTING_ID_BEACON, ROUTING_ID_PUBSUB}
    /\ allowed(key_s, beacon_whitelist_publickeys
                          \cup pubsub_whitelist_publickeys)

\* line 520: the condition of the ZAP handler of run()
ecatal_allowed(identity, key_s, beacon_whitelist_publickeys, pubsub_whitelist_publickeys) ==
    \/ /\ identity = ROUTING_ID_BEACON
       /\ allowed(key_s, beacon_whitelist_publickeys)
    \/ /\ identity = ROUTING_ID_PUBSUB
       /\ allowed(key_s, pubsub_whitelist_publickeys)

\* lines 515-524: the reply to a ZAP request
ecatal_zap_reply(msg_parts, beacon_whitelist_publickeys, pubsub_whitelist_publickeys) ==
    LET version  == msg_parts[1]
        sequence == msg_parts[2]
        identity == msg_parts[5]
        key      == msg_parts[7]
        key_b    == AsciiEncode(Z85Encode(key))
        key_s    == AsciiDecode(key_b)
        reply    == <<version, sequence>>
    IN  IF ecatal_allowed(identity, key_s, beacon_whitelist_publickeys,
                          pubsub_whitelist_publickeys)
        THEN reply \o <<B200, BOK, key_b, <<>>>>
        ELSE reply \o <<B400, BFAILED, <<>>, <<>>>>

\* A handling of a frame that writes every record as line 542 does.
beacon_received_as_new(beacon_recs, frame, t) ==
    IF Len(frame.bytes) = 2
    THEN DictPut(beacon_recs, frame.user_id,
                 <<TcpPrefix \o frame.peer_address \o <<58>>
                       \o DecStr(FromBytesLE(frame.bytes)),
                   t, <<>>>>)
    ELSE beacon_recs

\* lines 533-542: beacon_recs after one frame of the pull socket
beacon_received(beacon_recs, frame, t) ==
    IF Len(frame.bytes) = 2
    THEN LET key       == frame.user_id
             ip        == frame.peer_address
             port      == FromBytesLE(frame.bytes)
             connpoint == TcpPrefix \o ip \o <<58>> \o DecStr(port)
         IN  IF DictHas(beacon_recs, key)
             THEN DictPut(beacon_recs, key,
                          <<connpoint, t, DictGet(beacon_recs, key)[3]>>)
             ELSE DictPut(beacon_recs, key, <<connpoint, t, <<>>>>)
    ELSE beacon_recs

\* lines 529-542: beacon_recs after every queued frame
RECURSIVE beacons_drained(_, _, _)
beacons_drained(beacon_recs, queue, t) ==
    IF queue = <<>> THEN beacon_recs
    ELSE beacons_drained(beacon_received(beacon_recs, Head(queue), t),
                         Tail(queue), t)

\* A test of line 546 that never finds a record stale.
is_stale_never(t, t_last_beac, deactivate_interval) == FALSE

\* A test of line 546 that finds a record stale already when its age is
\* the interval.
is_stale_at_interval(t, t_last_beac, deactivate_interval) ==
    /\ deactivate_interval >= 0
    /\ t - t_last_beac >= deactivate_interval

\* line 546: the record is to be deactivated
is_stale(t, t_last_beac, deactivate_interval) ==
    /\ deactivate_interval >= 0
    /\ t - t_last_beac > deactivate_interval

\* lines 545-550: the records from the i-th on are deactivated when stale
\* and published when active; out.sent holds the messages published so
\* far and out.log what the loop has done so far, in its order: the
\* assignment of line 548 ("masked") and the send of line 550 ("sent")
RECURSIVE publish_pass(_, _, _, _, _)
publish_pass(beacon_recs, i, t, deactivate_interval, out) ==
    IF i > Len(beacon_recs)
    THEN [beacon_recs |-> beacon_recs, sent |-> out.sent, log |-> out.log]
    ELSE LET key   == beacon_recs[i][1]
             stale == is_stale(t, beacon_recs[i][2][2], deactivate_interval)
             connpoint == IF stale THEN <<>> ELSE beacon_recs[i][2][1]
             masked == IF stale
                       THEN Append(out.log, [op |-> "masked", key |-> key])
                       ELSE out.log
         IN  publish_pass(
                 IF stale THEN [beacon_recs EXCEPT ![i][2][1] = <<>>]
                 ELSE beacon_recs,
                 i + 1, t, deactivate_interval,
                 IF connpoint # <<>>
                 THEN [sent |-> Append(out.sent, <<AsciiEncode(key),
                                                   AsciiEncode(connpoint)>>),
                       log |-> Append(masked, [op |-> "sent", key |-> key])]
                 ELSE [sent |-> out.sent, log |-> masked])

(***************************************************************************)
(* The state.                                                              *)
(*   now      the clock time_musec() reads                                 *)
(*   efunguz  the Efunguz instance of each peer                            *)
(*   hwm      how many messages the pipe of a SUB socket holds (the        *)
(*            socket's high-water mark); it never changes                  *)
(*   ecataloguz  the Ecataloguz instance                                   *)
(***************************************************************************)
VARIABLES now, efunguz, hwm, ecataloguz

vars == <<now, efunguz, hwm, ecataloguz>>

\* Bounds of the model.
MaxClock == 1

MaxQueue == 2

MaxZap == 2

MaxObjects == 3

MaxPipe == 1

ClockStart == 255

\* the call ret of a method of peer p that returns [ef, value, status]
Call(p, ret) ==
    /\ efunguz[p].pc.at = "idle"
    /\ efunguz' = [efunguz EXCEPT ![p] = ret.ef]
    /\ UNCHANGED <<now, hwm, ecataloguz>>

\* the call of an etale operation, which returns <<eh, status>>, on the
\* ehypha of peer p for serverkey
CallEhypha(p, serverkey, ret) ==
    /\ efunguz[p].pc.at = "idle"
    /\ DictHas(efunguz[p].ehyphae, serverkey)
    /\ efunguz' = [efunguz EXCEPT ![p].ehyphae = DictPut(@, serverkey, ret[1])]
    /\ UNCHANGED <<now, hwm, ecataloguz>>

Tick ==
    /\ now < ClockStart + MaxClock
    /\ now' = now + 1
    /\ UNCHANGED <<efunguz, hwm, ecataloguz>>

do_add_whitelist_publickeys(p, publickeys) ==
    /\ efunguz[p].pc.at = "idle"
    /\ efunguz' = [efunguz EXCEPT ![p] = add_whitelist_publickeys(@, publickeys)]
    /\ UNCHANGED <<now, hwm, ecataloguz>>

do_del_whitelist_publickeys(p, publickeys) ==
    /\ efunguz[p].pc.at = "idle"
    /\ efunguz' = [efunguz EXCEPT ![p] = del_whitelist_publickeys(@, publickeys)]
    /\ UNCHANGED <<now, hwm, ecataloguz>>

do_add_ehypha(p, that_publickey, connpoint, ecatal_forget_interval) ==
    /\ efunguz[p].objects < MaxObjects
    /\ Call(p, add_ehypha(efunguz[p], that_publickey, connpoint,
                          ecatal_forget_interval))

do_del_ehypha(p, that_publickey) ==
    Call(p, del_ehypha(efunguz[p], that_publickey))

do_add_ecatal_from(p, that_publickey, connpoint) ==
    Call(p, add_ecatal_from(efunguz[p], that_publickey, connpoint))

do_del_ecatal_from(p, that_publickey) ==
    Call(p, del_ecatal_from(efunguz[p], that_publickey))

do_add_etale(p, serverkey, title) ==
    CallEhypha(p, serverkey,
               add_etale(DictGet(efunguz[p].ehyphae, serverkey), title))

do_del_etale(p, serverkey, title) ==
    CallEhypha(p, serverkey,
               del_etale(DictGet(efunguz[p].ehyphae, serverkey), title))

do_pause_etale(p, serverkey, title) ==
    CallEhypha(p, serverkey,
               pause_etale(DictGet(efunguz[p].ehyphae, serverkey), title))

do_resume_etale(p, serverkey, title) ==
    CallEhypha(p, serverkey,
               resume_etale(DictGet(efunguz[p].ehyphae, serverkey), title))

(***************************************************************************)
(* The transport between the peers.                                        *)
(***************************************************************************)
\* the ehypha's SUB socket is connected to the publisher of peer p
ConnectedTo(eh, p) ==
    /\ Endpoint(p) \in eh.subsock.conns
    /\ eh.serverkey = PublicKey(p)

\* the ZAP request libzmq makes of a CURVE handshake on a server socket
\* with routing id identity, from a client at address with public key key
ZapVersion == Str("1.0")

ZapSequence == Str("1")

ZapMechanism == Str("CURVE")

zap_request(address, identity, key) ==
    <<ZapVersion, ZapSequence, <<>>, address, identity, ZapMechanism, key>>

\* The SUB socket of q's ehypha for serverkey starts the CURVE handshake with
\* the publisher it is connected to; libzmq queues the ZAP request there.
Handshake(q, serverkey) ==
    /\ DictHas(efunguz[q].ehyphae, serverkey)
    /\ LET eh == DictGet(efunguz[q].ehyphae, serverkey)
       IN  /\ eh.subsock.auth \in {"none", "failed"}
           /\ \E p \in Peers \ {q} :
                /\ ConnectedTo(eh, p)
                /\ Len(efunguz[p].zapsock) < MaxZap
                /\ \A i \in 1..Len(efunguz[p].zapsock) :
                       efunguz[p].zapsock[i].from # <<q, serverkey>>
                /\ efunguz' =
                     [efunguz EXCEPT
                        ![q].ehyphae =
                            DictPut(@, serverkey,
                                    [eh EXCEPT !.subsock.auth = "pending"]),
                        ![p].zapsock =
                            Append(@, [from |-> <<q, serverkey>>,
                                       frames |->
                                           zap_request(PeerAddress(q),
                                                       ROUTING_ID_PUBSUB,
                                                       PublicKeyBin(q))])]
    /\ UNCHANGED <<now, hwm, ecataloguz>>

\* A handshake of somebody else reaches a CURVE server socket of p's context.
ForeignHandshake(p, identity, who) ==
    /\ Len(efunguz[p].zapsock) < MaxZap
    /\ efunguz' =
         [efunguz EXCEPT
            ![p].zapsock =
                Append(@, [from |-> <<who, <<>>>>,
                           frames |-> zap_request(ForeignAddress, identity,
                                                  PublicKeyBin(who))])]
    /\ UNCHANGED <<now, hwm, ecataloguz>>

\* the ehyphae of every peer after msg was published by peer p: the message
\* enters the pipe of every SUB socket that completed the handshake with p
\* (the pipe drops it when full).  The publisher's view of the subscriptions
\* lags the subscriber's, so every message may arrive; the SUB socket
\* filters on receipt.
Published(ef, p, msg) ==
    [q \in Peers |->
        IF q = p THEN ef[q]
        ELSE [ef[q] EXCEPT !.ehyphae =
                [i \in 1..Len(@) |->
                    IF /\ ConnectedTo(@[i][2], p)
                       /\ @[i][2].subsock.auth = "ok"
                       /\ Len(@[i][2].subsock.queue) < hwm
                    THEN <<@[i][1],
                           [@[i][2] EXCEPT !.subsock.queue = Append(@, msg)]>>
                    ELSE @[i]]]]

do_emit_etale(p, title, parts) ==
    /\ efunguz[p].pc.at = "idle"
    /\ LET t_out == now
       IN  efunguz' =
             Published(efunguz, p,
                       [frames |-> etale_frames(title, t_out, parts),
                        src |-> [emitted |-> TRUE, title |-> title,
                                 parts |-> parts, t |-> t_out]])
    /\ UNCHANGED <<now, hwm, ecataloguz>>

\* Frames that are not those of emit_etale are published under p's key.
SendRaw(p, frames) ==
    /\ efunguz' =
         Published(efunguz, p,
                   [NoMsg EXCEPT !.frames = frames])
    /\ UNCHANGED <<now, hwm, ecataloguz>>

(***************************************************************************)
(* Efunguz.update and the Ehypha.update it calls, step by step.  Between   *)
(* the steps of one call no other method of the same peer runs (the peer   *)
(* is single-threaded); the clock and the other peers go on.               *)
(***************************************************************************)
\* the messages in the pipes of the sockets of the dict socks from the
\* i-th on; a value of the dict is the socket or holds it as subsock
RECURSIVE Pending(_, _)
Pending(socks, i) ==
    IF i > Len(socks) THEN 0
    ELSE LET sock == IF "subsock" \in DOMAIN socks[i][2]
                     THEN socks[i][2].subsock
                     ELSE socks[i][2]
         IN  Len(sock.queue) + Pending(socks, i + 1)

\* the messages the SUB sockets of ef hold
Queued(ef) == Pending(ef.ecatals_from, 1) + Pending(ef.ehyphae, 1)

\* one more message received by the call at pc
Taken(pc) == IF pc.left < 0 THEN pc.left ELSE pc.left - 1

\* pc before the update() of ehypha i, idle after the last one
EnterEhyphae(ef, i) ==
    IF i <= Len(ef.ehyphae)
    THEN [ef.pc EXCEPT !.at = "ehyphae", !.t = 0, !.i = i, !.msg = NoMsg]
    ELSE Idle

\* pc at catalogue subscriber i of the loop of line 399
EnterEcatals(ef, t, i) ==
    IF i <= Len(ef.ecatals_from)
    THEN [ef.pc EXCEPT !.at = "ecatals", !.t = t, !.i = i, !.msg = NoMsg]
    ELSE EnterEhyphae(ef, 1)

\* peer q after the handshakes of its SUB sockets were answered
Answered(efq, q, requests, replies) ==
    [efq EXCEPT !.ehyphae =
        [j \in 1..Len(@) |->
            IF /\ @[j][2].subsock.auth = "pending"
               /\ \E i \in 1..Len(requests) : requests[i].from = <<q, @[j][1]>>
            THEN LET i == CHOOSE i \in 1..Len(requests) :
                              requests[i].from = <<q, @[j][1]>>
                 IN  <<@[j][1],
                       [@[j][2] EXCEPT !.subsock.auth =
                           IF replies[i][3] = B200 THEN "ok"
                           ELSE "failed"]>>
            ELSE @[j]]]

\* A test of line 395 that does not wait for beacon_interval.
beacon_due_always(t, t_last_beacon, beacon_interval) ==
    t - t_last_beacon >= Min(0, beacon_interval)

\* line 395: t - self.t_last_beacon >= self.beacon_interval
beacon_due(t, t_last_beacon, beacon_interval) ==
    t - t_last_beacon >= beacon_interval

\* lines 381-397: the ZAP drain, the clock read and the beacon
update_begin(p) ==
    /\ efunguz[p].pc.at = "idle"
    /\ LET ef      == [efunguz[p] EXCEPT
                          !.pc = [Idle EXCEPT !.left = Queued(efunguz[p])]]
           replies == [i \in 1..Len(ef.zapsock) |->
                          zap_reply(ef.zapsock[i].frames,
                                    ef.whitelist_publickeys)]
           t       == now
           ef1     == [ef EXCEPT !.zapsock = <<>>, !.zapout = replies,
                                 !.raised = FALSE]
           ef2     == IF beacon_due(t, ef1.t_last_beacon, ef1.beacon_interval)
                      THEN [emit_beacon(ef1) EXCEPT !.t_last_beacon = t]
                      ELSE ef1
           ef3     == [ef2 EXCEPT !.pc = EnterEcatals(ef2, t, 1)]
       IN  efunguz' = [q \in Peers |->
                          IF q = p THEN ef3
                          ELSE Answered(efunguz[q], q, ef.zapsock, replies)]
    /\ UNCHANGED <<now, hwm, ecataloguz>>

\* lines 400-413: one message of catalogue subscriber pc.i
update_ecatal_recv(p) ==
    /\ efunguz[p].pc.at = "ecatals"
    /\ LET ef     == efunguz[p]
           i      == ef.pc.i
           ec_key == ef.ecatals_from[i][1]
           got    == recv_multipart(ef.ecatals_from[i][2])
       IN  /\ poll(ef.ecatals_from[i][2])
           /\ efunguz' =
                [efunguz EXCEPT
                   ![p].ecatals_from[i] = <<ec_key, got[1]>>,
                   ![p].pc.msg = got[2],
                   ![p].pc.left = Taken(efunguz[p].pc),
                   ![p].ehyphae =
                       rendezvous(@, ec_key, got[2].frames, ef.pc.t)]
    /\ UNCHANGED <<now, hwm, ecataloguz>>

\* line 400: catalogue subscriber pc.i has nothing more
update_ecatal_done(p) ==
    /\ efunguz[p].pc.at = "ecatals"
    /\ LET ef == efunguz[p]
           i  == ef.pc.i
       IN  /\ ~poll(ef.ecatals_from[i][2])
           /\ efunguz' =
                [efunguz EXCEPT
                   ![p].ecatals_from[i][2] = polled_empty(@),
                   ![p].pc = EnterEcatals(ef, ef.pc.t, i + 1)]
    /\ UNCHANGED <<now, hwm, ecataloguz>>

\* Ehypha.update, lines 207-222, of ehypha pc.i
update_ehypha_vote(p) ==
    /\ efunguz[p].pc.at = "ehyphae"
    /\ LET ef == efunguz[p]
           i  == ef.pc.i
           t  == now
       IN  efunguz' =
             [efunguz EXCEPT
                ![p].ehyphae[i][2] = vote(@, t),
                ![p].pc = [@ EXCEPT !.at = "drain", !.t = t, !.i = i,
                                    !.msg = NoMsg]]
    /\ UNCHANGED <<now, hwm, ecataloguz>>

\* Ehypha.update, lines 224-238: one message of ehypha pc.i; a raise ends
\* Efunguz.update
update_ehypha_recv(p) ==
    /\ efunguz[p].pc.at = "drain"
    /\ LET ef  == efunguz[p]
           i   == ef.pc.i
           eh  == ef.ehyphae[i][2]
           got == recv_multipart(eh.subsock)
           r   == ingest([eh EXCEPT !.subsock = got[1]], got[2].frames,
                         ef.pc.t)
       IN  /\ poll(eh.subsock)
           /\ efunguz' =
                [efunguz EXCEPT
                   ![p].ehyphae[i][2] = r.eh,
                   ![p].raised = r.raised,
                   ![p].pc = IF r.raised THEN [Idle EXCEPT !.msg = got[2]]
                             ELSE [@ EXCEPT !.msg = got[2],
                                            !.left = Taken(ef.pc)]]
    /\ UNCHANGED <<now, hwm, ecataloguz>>

\* line 224: ehypha pc.i has nothing more
update_ehypha_done(p) ==
    /\ efunguz[p].pc.at = "drain"
    /\ LET ef == efunguz[p]
           i  == ef.pc.i
       IN  /\ ~poll(ef.ehyphae[i][2].subsock)
           /\ efunguz' =
                [efunguz EXCEPT
                   ![p].ehyphae[i][2].subsock = polled_empty(@),
                   ![p].pc = EnterEhyphae(ef, i + 1)]
    /\ UNCHANGED <<now, hwm, ecataloguz>>

update(p) ==
    \/ update_begin(p)
    \/ update_ecatal_recv(p)
    \/ update_ecatal_done(p)
    \/ update_ehypha_vote(p)
    \/ update_ehypha_recv(p)
    \/ update_ehypha_done(p)

\* Efunguz.update of a peer that has no catalogue subscriber: the loop of
\* line 399 has no pass, so update_begin goes on to the ehyphae
update_sans_ecatals(p) ==
    \/ update_begin(p)
    \/ update_ehypha_vote(p)
    \/ update_ehypha_recv(p)
    \/ update_ehypha_done(p)

\* Efunguz.update of a peer whose ehyphae are sent nothing: the loop of
\* line 224 finds every queue empty
update_sans_etales(p) ==
    \/ update_begin(p)
    \/ update_ecatal_recv(p)
    \/ update_ecatal_done(p)
    \/ update_ehypha_vote(p)
    \/ update_ehypha_done(p)

(***************************************************************************)
(* Program constants used by the specifications.                           *)
(***************************************************************************)
DEF_EFUNGI_ECATAL_FORGET_INTERVAL == 60000000

DEF_EFUNGI_BEACON_INTERVAL == 2000000

\* Efunguz(secretkey) with the defaults of the other arguments
DefaultEfunguz ==
    Efunguz({}, DEF_EFUNGI_PUBSUB_PORT, DEF_EFUNGI_BEACON_INTERVAL,
            DEF_EFUNGI_ECATAL_FORGET_INTERVAL)

DefaultEcataloguz ==
    Ecataloguz(<<>>, {}, DEF_ECATAL_BEACON_PORT, DEF_ECATAL_PUBSUB_PORT,
               DEF_ECATAL_DEACTIVATE_INTERVAL, DEF_ECATAL_PUBLISH_INTERVAL,
               DEF_ECATAL_IDLE_INTERVAL)

(***************************************************************************)
(* SpecEtale: peer B subscribes to etales of peer A.  A admits everybody   *)
(* (its whitelist is empty).  B adds an ehypha for A at A's endpoint, adds *)
(* deletes, pauses and resumes etales and calls update(); A calls          *)
(* emit_etale and update(); frames that emit_etale would not send are      *)
(* published under A's key as well.                                        *)
(***************************************************************************)
\* the empty title, and a title of NUL and e-acute, whose topic begins with
\* the topic of the empty title
Titles == {<<>>, <<0, 233>>}

PartsSet == {<<>>, << <<>>, <<1, 2>> >>}

\* what A publishes: the empty title without parts, the other title with
\* two parts of which the first is empty
Emissions == {<< <<>>, <<>> >>, << <<0, 233>>, << <<>>, <<1, 2>> >> >>}

\* one frame only; a topic that is not UTF-8; the topic of a title B does not
\* know; a timestamp of 3 bytes; an empty topic
RawFrames ==
    { << Topic(<<>>) >>,
      << <<0, 255, 0>>, ToBytesLE(7, 8) >>,
      << Topic(<<0>>), ToBytesLE(7, 8), <<5>> >>,
      << Topic(<<>>), <<1, 2, 3>>, <<5>> >>,
      << <<>>, ToBytesLE(7, 8) >> }

InitEtale ==
    /\ now = ClockStart
    /\ efunguz = [p \in Peers |-> DefaultEfunguz]
    /\ hwm = MaxQueue
    /\ ecataloguz = DefaultEcataloguz

KA == PublicKey("A")

EA == Endpoint("A")

NextEtale ==
    \/ Tick
    \/ do_add_ehypha("B", KA, EA, <<>>)
    \/ Handshake("B", KA)
    \/ \E p \in Peers : update_sans_ecatals(p)
    \/ \E e \in Emissions : do_emit_etale("A", e[1], e[2])
    \/ \E title \in Titles : do_add_etale("B", KA, title)
    \/ \E title \in Titles : do_del_etale("B", KA, title)
    \/ \E title \in Titles : do_pause_etale("B", KA, title)
    \/ \E title \in Titles : do_resume_etale("B", KA, title)

SpecEtale == InitEtale /\ [][NextEtale]_vars

Spec == SpecEtale

(***************************************************************************)
(* SpecRaw: publisher A also sends messages that are not those of          *)
(* emit_etale; B adds and pauses etales.                                   *)
(***************************************************************************)
InitRaw ==
    /\ now = ClockStart
    /\ efunguz = [p \in Peers |-> DefaultEfunguz]
    /\ hwm = MaxQueue
    /\ ecataloguz = DefaultEcataloguz

NextRaw ==
    \/ do_add_ehypha("B", KA, EA, <<>>)
    \/ Handshake("B", KA)
    \/ \E p \in Peers : update_sans_ecatals(p)
    \/ \E e \in Emissions : do_emit_etale("A", e[1], e[2])
    \/ \E frames \in RawFrames : SendRaw("A", frames)
    \/ \E title \in Titles : do_add_etale("B", KA, title)
    \/ \E title \in Titles : do_pause_etale("B", KA, title)

SpecRaw == InitRaw /\ [][NextRaw]_vars

(***************************************************************************)
(* Properties of the etale traffic (SpecEtale, SpecRaw).  B is the         *)
(* subscriber, A the publisher; BA is the ehypha B keeps for A.            *)
(***************************************************************************)
HasBA == DictHas(efunguz["B"].ehyphae, KA)

BA == DictGet(efunguz["B"].ehyphae, KA)

\* The message the next pass of the loop of line 224 in p's update() reads.
Received(p) ==
    recv_multipart(efunguz[p].ehyphae[efunguz[p].pc.i][2].subsock)[2]

\* The etales of every ehypha of p, in the order of the dict.
EtalesOf(p) ==
    [i \in 1..Len(efunguz[p].ehyphae) |-> efunguz[p].ehyphae[i][2].etales]

\* frames is one of the messages update() is to ignore: fewer than two
\* frames, an empty topic, a topic that is not UTF-8, a title that is
\* unknown or paused, a timestamp that is not 8 bytes long.
Malformed(eh, frames) ==
    \/ Len(frames) < 2
    \/ Len(frames[1]) < 1
    \/ LET title == Utf8Decode(SubSeq(frames[1], 1, Len(frames[1]) - 1))
       IN  \/ title = DecodeError
           \/ title \notin DOMAIN eh.etales
           \/ eh.etales[title].paused
    \/ Len(frames[2]) # 8

\* C1: while an etale is paused no step changes its parts, t_out or t_in,
\* whatever is published, delivered and drained; and once it is not paused
\* (after resume_etale) a publication of its title that update() drains sets
\* all three: parts and t_out to the published ones, t_in to update()'s t.
C1_PauseFreezesEtale ==
    [][\A title \in Titles :
         /\ ( /\ HasBA /\ HasBA'
              /\ title \in DOMAIN BA.etales
              /\ title \in DOMAIN BA'.etales
              /\ BA.etales[title].paused )
            => /\ BA'.etales[title].parts = BA.etales[title].parts
               /\ BA'.etales[title].t_out = BA.etales[title].t_out
               /\ BA'.etales[title].t_in = BA.etales[title].t_in
         /\ ( /\ update_ehypha_recv("B")
              /\ Received("B").src.emitted
              /\ Received("B").src.title = title
              /\ title \in DOMAIN BA.etales
              /\ ~BA.etales[title].paused )
            => BA'.etales[title] =
                 [parts |-> Received("B").src.parts,
                  t_out |-> Received("B").src.t,
                  t_in |-> efunguz["B"].pc.t,
                  paused |-> FALSE]
      ]_vars

\* A paused etale that had been received earlier, just after update() has
\* read a later publication of its title and left the etale as it was.
C1_Witness ==
    /\ HasBA
    /\ efunguz["B"].pc.at = "drain"
    /\ efunguz["B"].pc.msg.src.emitted
    /\ LET title == efunguz["B"].pc.msg.src.title
       IN  /\ title \in DOMAIN BA.etales
           /\ BA.etales[title].paused
           /\ BA.etales[title].t_in # 0 - 1
           /\ BA.etales[title].t_out < efunguz["B"].pc.msg.src.t

\* C2: a message emit_etale(title, parts) built at time t_out, once update()
\* reads it for a title that is present and not paused, leaves the etale
\* with exactly those parts (number, order, bytes) and that t_out.
C2_TopicFramingRoundTrip ==
    [][\A title \in Titles : \A parts \in PartsSet :
         ( /\ update_ehypha_recv("B")
           /\ Received("B").frames =
                etale_frames(title, Received("B").src.t, parts)
           /\ Received("B").src.emitted
           /\ title \in DOMAIN BA.etales
           /\ ~BA.etales[title].paused )
         => /\ BA'.etales[title].parts = parts
            /\ BA'.etales[title].t_out = Received("B").src.t
      ]_vars

\* An etale with a non-ASCII title holding two parts, one of them empty, and
\* a t_out that needs two bytes: what update() has just read off the wire.
C2_Witness ==
    /\ HasBA
    /\ efunguz["B"].pc.at = "drain"
    /\ efunguz["B"].pc.msg.src.emitted
    /\ efunguz["B"].pc.msg.src.title = <<0, 233>>
    /\ <<0, 233>> \in DOMAIN BA.etales
    /\ BA.etales[<<0, 233>>].parts = << <<>>, <<1, 2>> >>
    /\ BA.etales[<<0, 233>>].t_out > 255
    /\ BA.etales[<<0, 233>>].t_out = efunguz["B"].pc.msg.src.t

\* C6: a pass of the loop of Ehypha.update() that reads a malformed message
\* changes no field of any etale of the Efunguz, however it ends.
C6_MalformedFrameImmunity ==
    [][( /\ update_ehypha_recv("B")
         /\ Malformed(BA, Received("B").frames) )
       => EtalesOf("B")' = EtalesOf("B")
      ]_vars

\* update() has just read a message for a present, active title whose
\* timestamp is 3 bytes long, and the etale is still as add_etale made it.
C6_Witness ==
    /\ HasBA
    /\ efunguz["B"].pc.at = "drain"
    /\ Len(efunguz["B"].pc.msg.frames) >= 2
    /\ Len(efunguz["B"].pc.msg.frames[2]) = 3
    /\ <<>> \in DOMAIN BA.etales
    /\ ~BA.etales[<<>>].paused
    /\ BA.etales[<<>>].t_in = 0 - 1

\* C7: a pass of the loop of Ehypha.update() that reads a message with an
\* error in it (too few frames, a topic that is not UTF-8, an unknown title,
\* a timestamp of the wrong length) raises nothing and leaves update() in
\* the loop, ready for the messages queued behind it.
C7_ErrorsSilentlyDropped ==
    [][( /\ update_ehypha_recv("B")
         /\ Malformed(BA, Received("B").frames) )
       => /\ ~efunguz'["B"].raised
          /\ efunguz'["B"].pc.at = "drain"
      ]_vars

(***************************************************************************)
(* SpecAuth: the whitelist of publisher A and the handshakes it answers.   *)
(* B subscribes to A; C is a key pair that is neither.                     *)
(***************************************************************************)
KB == PublicKey("B")

KC == PublicKey("C")

InitAuth ==
    /\ now = ClockStart
    /\ efunguz = [p \in Peers |-> DefaultEfunguz]
    /\ hwm = MaxQueue
    /\ ecataloguz = DefaultEcataloguz

NextAuth ==
    \/ \E k \in {KB, KC} : do_add_whitelist_publickeys("A", {k})
    \/ \E k \in {KB, KC} : do_del_whitelist_publickeys("A", {k})
    \/ do_add_ehypha("B", KA, EA, <<>>)
    \/ do_add_etale("B", KA, <<>>)
    \/ Handshake("B", KA)
    \/ \E identity \in {ROUTING_ID_PUBSUB, ROUTING_ID_BEACON} :
           ForeignHandshake("A", identity, "C")
    \/ \E p \in Peers : update_sans_ecatals(p)
    \/ do_emit_etale("A", <<>>, << <<1, 2>> >>)

SpecAuth == InitAuth /\ [][NextAuth]_vars

WA == efunguz["A"].whitelist_publickeys

\* C3: the handshake of subscriber B is accepted only by an update() of A
\* that finds A's whitelist empty or holding B's key (add_ and
\* del_whitelist_publickeys change the answer to later handshakes only), and
\* the etales of a subscriber that was not admitted keep t_in = -1.
C3_AuthenticationGate ==
    /\ [][( /\ HasBA /\ HasBA'
            /\ BA.subsock.auth # "ok"
            /\ BA'.subsock.auth = "ok" )
          => /\ update_begin("A")
             /\ (WA = {} \/ KB \in WA)
         ]_vars
    /\ []( (HasBA /\ BA.subsock.auth # "ok")
           => /\ BA.subsock.queue = <<>>
              /\ \A title \in DOMAIN BA.etales :
                     BA.etales[title].t_in = 0 - 1 )

\* A's whitelist holds C's key only, A has refused B's handshake and has
\* published since; B's etale is as add_etale made it.
C3_Witness ==
    /\ WA = {KC}
    /\ HasBA
    /\ BA.subsock.auth = "failed"
    /\ <<>> \in DOMAIN BA.etales
    /\ BA.etales[<<>>].t_in = 0 - 1
    /\ efunguz["B"].pc.at = "drain"

\* C3 as stated: in no step taken while A's whitelist is non-empty and
\* without B's key does an etale of B receive anything.
C3_Original ==
    [][( /\ WA # {} /\ KB \notin WA
         /\ WA' # {} /\ KB \notin WA'
         /\ HasBA /\ HasBA' )
       => \A title \in DOMAIN BA.etales \cap DOMAIN BA'.etales :
              BA'.etales[title].t_in = BA.etales[title].t_in
      ]_vars

\* C4: the ZAP drain of Efunguz.update() empties the queue of requests and
\* writes one reply per request, in order, with the request's version and
\* sequence; the reply is 200/OK with the Z85 text of the request's key as
\* user id iff the identity is "pubsub" and the whitelist is empty or holds
\* that text, and 400/FAILED with an empty user id otherwise; the metadata
\* frame is empty in both.
C4_ZapReply ==
    [][\A p \in Peers :
         update_begin(p)
         => /\ efunguz'[p].zapsock = <<>>
            /\ Len(efunguz'[p].zapout) = Len(efunguz[p].zapsock)
            /\ \A i \in 1..Len(efunguz[p].zapsock) :
                 LET req == efunguz[p].zapsock[i].frames
                     rep == efunguz'[p].zapout[i]
                     W   == efunguz[p].whitelist_publickeys
                     z85 == Z85Encode(req[7])
                 IN  /\ Len(rep) = 6
                     /\ rep[1] = req[1]
                     /\ rep[2] = req[2]
                     /\ rep[6] = <<>>
                     /\ IF /\ req[5] = ROUTING_ID_PUBSUB
                           /\ (W = {} \/ z85 \in W)
                        THEN /\ rep[3] = B200
                             /\ rep[4] = BOK
                             /\ rep[5] = z85
                        ELSE /\ rep[3] = B400
                             /\ rep[4] = BFAILED
                             /\ rep[5] = <<>>
      ]_vars

\* update() of A has answered two requests under a whitelist holding B's
\* key only: B's with 200, the one of C with 400.
C4_Witness ==
    /\ WA = {KB}
    /\ Len(efunguz["A"].zapout) = 2
    /\ \E i, j \in 1..2 :
         /\ efunguz["A"].zapout[i][3] = B200
         /\ efunguz["A"].zapout[i][5] = KB
         /\ efunguz["A"].zapout[j][3] = B400

(***************************************************************************)
(* Ecataloguz: the calls made before run(), run() and its loop, and the    *)
(* clients of its two sockets.                                             *)
(***************************************************************************)
do_read_beacon_whitelist_publickeys_with_comments(lines) ==
    /\ ~ecataloguz.running
    /\ ecataloguz' =
         read_beacon_whitelist_publickeys_with_comments(ecataloguz, lines)
    /\ UNCHANGED <<now, efunguz, hwm>>

do_read_pubsub_whitelist_publickeys(lines) ==
    /\ ~ecataloguz.running
    /\ ecataloguz' = read_pubsub_whitelist_publickeys(ecataloguz, lines)
    /\ UNCHANGED <<now, efunguz, hwm>>

\* lines 511 and 627-628: run() binds the sockets and enters the loop
run_begin ==
    /\ ecataloguz.init = "done"
    /\ ~ecataloguz.running
    /\ ecataloguz' = [ecataloguz EXCEPT !.pullsock.bound = TRUE,
                                        !.pubsock.bound = TRUE,
                                        !.running = TRUE,
                                        !.t_last_pub = 0]
    /\ UNCHANGED <<now, efunguz, hwm>>

ClientAddress(who) == IF who \in Peers THEN PeerAddress(who) ELSE ForeignAddress

\* The holder of key pair who starts a CURVE handshake with a socket of the
\* Ecataloguz context whose routing id is identity; libzmq queues the ZAP
\* request.
EcatalHandshake(who, identity) ==
    /\ ecataloguz.pullsock.bound
    /\ ecataloguz.pubsock.bound
    /\ Len(ecataloguz.zapsock) < MaxZap
    /\ \A i \in 1..Len(ecataloguz.zapsock) :
           ecataloguz.zapsock[i].from # <<who, identity>>
    /\ ecataloguz' =
         [ecataloguz EXCEPT !.zapsock =
             Append(@, [from |-> <<who, identity>>,
                        frames |-> zap_request(ClientAddress(who), identity,
                                               PublicKeyBin(who))])]
    /\ UNCHANGED <<now, efunguz, hwm>>

\* A client whose handshake with the pull socket was accepted pushes a frame.
ClientBeacon(session, bytes) ==
    /\ session \in ecataloguz.pullsock.sessions
    /\ Len(ecataloguz.pullsock.queue) < hwm
    /\ ecataloguz' =
         [ecataloguz EXCEPT !.pullsock.queue =
             Append(@, [bytes |-> bytes, user_id |-> session.user_id,
                        peer_address |-> session.peer_address])]
    /\ UNCHANGED <<now, efunguz, hwm>>

\* the sessions a socket gains from the handshakes a ZAP drain accepted
Admitted(requests, replies, identity) ==
    {[user_id |-> AsciiDecode(replies[i].frames[5]),
      peer_address |-> requests[i].frames[4]] :
        i \in {j \in 1..Len(requests) :
                 /\ replies[j].frames[3] = B200
                 /\ requests[j].frames[5] = identity}}

\* lines 513-551: one pass of the loop of run()
run_loop ==
    /\ ecataloguz.running
    /\ LET ec      == ecataloguz
           replies == [i \in 1..Len(ec.zapsock) |->
                          [to |-> ec.zapsock[i].from,
                           frames |->
                               ecatal_zap_reply(
                                   ec.zapsock[i].frames,
                                   ec.beacon_whitelist_publickeys,
                                   ec.pubsub_whitelist_publickeys)]]
           t       == now
           recs    == beacons_drained(ec.beacon_recs, ec.pullsock.queue, t)
           due     == t - ec.t_last_pub > ec.publish_interval
           pub     == IF due
                      THEN publish_pass(recs, 1, t, ec.deactivate_interval,
                                        [sent |-> <<>>, log |-> <<>>])
                      ELSE [beacon_recs |-> recs, sent |-> <<>>,
                            log |-> <<>>]
       IN  ecataloguz' =
             [ec EXCEPT
                !.zapsock = <<>>,
                !.zapout = replies,
                !.pullsock.sessions =
                    @ \cup Admitted(ec.zapsock, replies, ROUTING_ID_BEACON),
                !.pullsock.queue = <<>>,
                !.pubsock.sessions =
                    @ \cup Admitted(ec.zapsock, replies, ROUTING_ID_PUBSUB),
                !.beacon_recs = pub.beacon_recs,
                !.pubout = pub.sent,
                !.publog = pub.log,
                !.t_last_pub = IF due THEN t ELSE @]
    /\ UNCHANGED <<now, efunguz, hwm>>

(***************************************************************************)
(* SpecCatal: an Ecataloguz whose whitelists are read from files holding   *)
(* A's key (beacons) and B's key (subscriptions), and the handshakes and   *)
(* beacons of the key pairs A, B and C.                                    *)
(***************************************************************************)
BeaconWhitelistLines == <<KA \o Str(" alice") \o <<10>>, Str("short") \o <<10>>>>

PubsubWhitelistLines == <<KB \o <<10>>>>

OtherRoutingId == Str("other")

BeaconFrames == {ToBytesLE(DEF_EFUNGI_PUBSUB_PORT, 2), <<1, 2, 3>>}

InitCatal ==
    /\ now = ClockStart
    /\ efunguz = [p \in Peers |-> DefaultEfunguz]
    /\ hwm = MaxPipe
    /\ ecataloguz =
         Ecataloguz(<<>>, {}, DEF_ECATAL_BEACON_PORT, DEF_ECATAL_PUBSUB_PORT,
                    0, 0, DEF_ECATAL_IDLE_INTERVAL)

NextCatal ==
    \/ do_read_beacon_whitelist_publickeys_with_comments(BeaconWhitelistLines)
    \/ do_read_pubsub_whitelist_publickeys(PubsubWhitelistLines)
    \/ run_begin
    \/ EcatalHandshake("A", ROUTING_ID_BEACON)
    \/ \E identity \in {ROUTING_ID_BEACON, ROUTING_ID_PUBSUB,
                         OtherRoutingId} :
           EcatalHandshake("B", identity)
    \/ \E session \in ecataloguz.pullsock.sessions :
         \E bytes \in BeaconFrames : ClientBeacon(session, bytes)
    \/ run_loop

SpecCatal == InitCatal /\ [][NextCatal]_vars

\* C5: the ZAP drain of run() answers every request with 200/OK and the Z85
\* text of its key iff the identity is "beacon" and the beacon whitelist is
\* empty or holds that text, or the identity is "pubsub" and the pubsub
\* whitelist is empty or holds that text, and with 400/FAILED otherwise; so
\* under a non-empty beacon whitelist only its keys have a session with the
\* pull socket and only records of its keys ever hold a beacon.
C5_EcataloguzZap ==
    /\ [][run_loop
          => /\ ecataloguz'.zapsock = <<>>
             /\ Len(ecataloguz'.zapout) = Len(ecataloguz.zapsock)
             /\ \A i \in 1..Len(ecataloguz.zapsock) :
                  LET req == ecataloguz.zapsock[i].frames
                      rep == ecataloguz'.zapout[i].frames
                      BW  == ecataloguz.beacon_whitelist_publickeys
                      PW  == ecataloguz.pubsub_whitelist_publickeys
                      z85 == Z85Encode(req[7])
                  IN  /\ Len(rep) = 6
                      /\ rep[1] = req[1]
                      /\ rep[2] = req[2]
                      /\ rep[6] = <<>>
                      /\ IF \/ /\ req[5] = ROUTING_ID_BEACON
                               /\ (BW = {} \/ z85 \in BW)
                            \/ /\ req[5] = ROUTING_ID_PUBSUB
                               /\ (PW = {} \/ z85 \in PW)
                         THEN /\ rep[3] = B200
                              /\ rep[4] = BOK
                              /\ rep[5] = z85
                         ELSE /\ rep[3] = B400
                              /\ rep[4] = BFAILED
                              /\ rep[5] = <<>>
         ]_vars
    /\ [](ecataloguz.beacon_whitelist_publickeys # {}
          => /\ \A session \in ecataloguz.pullsock.sessions :
                  session.user_id \in ecataloguz.beacon_whitelist_publickeys
             /\ \A i \in 1..Len(ecataloguz.beacon_recs) :
                  ecataloguz.beacon_recs[i][2][2] >= 0
                  => ecataloguz.beacon_recs[i][1]
                         \in ecataloguz.beacon_whitelist_publickeys)

\* Under a beacon whitelist of A's key and a pubsub whitelist of B's key,
\* run() has refused B at the pull socket and accepted B at the pub socket
\* in one pass, and B has no session with the pull socket.
C5_Witness ==
    /\ ecataloguz.beacon_whitelist_publickeys = {KA}
    /\ ecataloguz.pubsub_whitelist_publickeys = {KB}
    /\ \E i, j \in 1..Len(ecataloguz.zapout) :
         /\ ecataloguz.zapout[i].to = <<"B", ROUTING_ID_BEACON>>
         /\ ecataloguz.zapout[i].frames[3] = B400
         /\ ecataloguz.zapout[j].to = <<"B", ROUTING_ID_PUBSUB>>
         /\ ecataloguz.zapout[j].frames[3] = B200
    /\ \E session \in ecataloguz.pubsock.sessions : session.user_id = KB
    /\ \E session \in ecataloguz.pullsock.sessions : session.user_id = KA

(***************************************************************************)
(* SpecHyphae: B adds and deletes ehyphae under keys given in several      *)
(* forms, and a catalogue subscriber beside them.                          *)
(***************************************************************************)
\* A's key, A's key with a trailing newline, B's key
KeyForms == {KA, KA \o <<10>>, KB}

KK == PublicKey("K")

CatalEndpoints ==
    [c \in {"K", "L", "M"} |->
        Str("tcp://10.0.1.") \o DecStr(KeySeed(c)) \o <<58>>
            \o DecStr(DEF_ECATAL_PUBSUB_PORT)]

InitHyphae ==
    /\ now = ClockStart
    /\ efunguz = [p \in Peers |-> DefaultEfunguz]
    /\ hwm = MaxQueue
    /\ ecataloguz = DefaultEcataloguz

NextHyphae ==
    \/ \E k \in KeyForms : \E connpoint \in {EA, None} :
           do_add_ehypha("B", k, connpoint, <<>>)
    \/ \E k \in KeyForms : do_del_ehypha("B", k)
    \/ do_add_ecatal_from("B", KK, CatalEndpoints["K"])
    \/ do_del_ecatal_from("B", KK)
    \/ do_add_etale("B", KA, <<>>)

SpecHyphae == InitHyphae /\ [][NextHyphae]_vars

\* the first 40 characters of k, with spaces where k has none
Norm40(k) == [i \in 1..40 |-> IF i <= Len(k) THEN k[i] ELSE 32]

\* C8: in every state B reaches, add_ehypha(k) and then add_ehypha(k2), for
\* k and k2 of the same first 40 characters, return the same object, the
\* first with EW_OK iff no ehypha had that key, the second with
\* EW_ALREADY_PRESENT and no change of state; del_ehypha(k) and then
\* del_ehypha(k2) return EW_OK iff an ehypha had that key and then
\* EW_ALREADY_ABSENT, the first removing that ehypha and no other; and no two
\* ehyphae of the dict have the same key.
C8_IdempotentEhyphae ==
    LET ef      == efunguz["B"]
        Has(k)  == \E i \in 1..Len(ef.ehyphae) : ef.ehyphae[i][1] = Norm40(k)
    IN  /\ \A i, j \in 1..Len(ef.ehyphae) :
               ef.ehyphae[i][1] = ef.ehyphae[j][1] => i = j
        /\ \A i \in 1..Len(ef.ehyphae) :
               /\ Len(ef.ehyphae[i][1]) = 40
               /\ ef.ehyphae[i][2].serverkey = ef.ehyphae[i][1]
        /\ \A k, k2 \in KeyForms :
             Norm40(k) = Norm40(k2)
             => /\ \A connpoint, connpoint2 \in {EA, None} :
                     LET r1 == add_ehypha(ef, k, connpoint, <<>>)
                         r2 == add_ehypha(r1.ef, k2, connpoint2, <<>>)
                     IN  /\ r1.status = IF Has(k) THEN EW_ALREADY_PRESENT
                                        ELSE EW_OK
                         /\ Len(r1.ef.ehyphae) =
                                Len(ef.ehyphae) + IF Has(k) THEN 0 ELSE 1
                         /\ r2.status = EW_ALREADY_PRESENT
                         /\ r2.value = r1.value
                         /\ r2.ef = r1.ef
                /\ LET d1 == del_ehypha(ef, k)
                       d2 == del_ehypha(d1.ef, k2)
                   IN  /\ d1.status = IF Has(k) THEN EW_OK
                                      ELSE EW_ALREADY_ABSENT
                       /\ Len(d1.ef.ehyphae) =
                              Len(ef.ehyphae) - IF Has(k) THEN 1 ELSE 0
                       /\ \A i \in 1..Len(ef.ehyphae) :
                              ef.ehyphae[i][1] # Norm40(k)
                              => \E j \in 1..Len(d1.ef.ehyphae) :
                                     d1.ef.ehyphae[j] = ef.ehyphae[i]
                       /\ d2.status = EW_ALREADY_ABSENT
                       /\ d2.ef = d1.ef

\* B has made two ehyphae and deleted the first: the one for A is its
\* second object, it holds an etale, and the catalogue subscriber is
\* subscribed to A's key once.
C8_Witness ==
    /\ efunguz["B"].objects = 2
    /\ Len(efunguz["B"].ehyphae) = 1
    /\ efunguz["B"].ehyphae[1][1] = KA
    /\ efunguz["B"].ehyphae[1][2].object = 2
    /\ <<>> \in DOMAIN efunguz["B"].ehyphae[1][2].etales
    /\ Len(efunguz["B"].ecatals_from) = 1
    /\ efunguz["B"].ecatals_from[1][2].subs = SetToBag({KA})

(***************************************************************************)
(* SpecVote: B has an ehypha for A, without connpoint, and subscribers of  *)
(* the catalogues K, L and M, which publish connpoints for A: K one, L     *)
(* and M another; reports are forgotten when the clock has moved by one,   *)
(* or by two, or never.                                                    *)
(***************************************************************************)
OtherEndpoint == Str("tcp://10.0.0.4:60847")

\* what each catalogue publishes as the connpoint of A
Rumours ==
    {<<"K", EA>>, <<"L", OtherEndpoint>>, <<"M", OtherEndpoint>>}

\* Catalogue c, which has accepted every subscriber connected to it,
\* publishes frames.
EcatalPublish(c, frames) ==
    /\ efunguz' =
         [q \in Peers |->
            [efunguz[q] EXCEPT !.ecatals_from =
                [i \in 1..Len(@) |->
                    IF /\ @[i][1] = PublicKey(c)
                       /\ CatalEndpoints[c] \in @[i][2].conns
                       /\ Len(@[i][2].queue) < hwm
                    THEN <<@[i][1],
                           [@[i][2] EXCEPT !.queue =
                               Append(@, [NoMsg EXCEPT !.frames = frames])]>>
                    ELSE @[i]]]]
    /\ UNCHANGED <<now, hwm, ecataloguz>>

\* B after add_ehypha(A's key, None, forget) and add_ecatal_from of K, L, M
Voter(forget) ==
    LET e0 == add_ehypha(DefaultEfunguz, KA, None, <<forget>>).ef
        e1 == add_ecatal_from(e0, PublicKey("K"), CatalEndpoints["K"]).ef
        e2 == add_ecatal_from(e1, PublicKey("L"), CatalEndpoints["L"]).ef
    IN  add_ecatal_from(e2, PublicKey("M"), CatalEndpoints["M"]).ef

InitVote ==
    /\ now = ClockStart
    /\ \E forget \in {0, 1, 0 - 1} :
         efunguz = [p \in Peers |->
                      IF p = "B" THEN Voter(forget) ELSE DefaultEfunguz]
    /\ hwm = MaxPipe
    /\ ecataloguz = DefaultEcataloguz

NextVote ==
    \/ \E r \in Rumours :
           EcatalPublish(r[1], <<AsciiEncode(KA), AsciiEncode(r[2])>>)
    \/ update_sans_etales("B")
    \/ Tick

SpecVote == InitVote /\ [][NextVote]_vars

\* the reports of eh that are not stale at time t, by their place in the
\* cache
Fresh(eh, t) ==
    {i \in 1..Len(eh.connpoints_via_ecatals) :
        ~( /\ eh.ecatal_forget_interval >= 0
           /\ t - eh.connpoints_via_ecatals[i][2][2]
                  > eh.ecatal_forget_interval )}

\* the number of reports of Fresh(eh, t) that name the connpoint of report i
Tally(eh, t, i) ==
    Cardinality({j \in Fresh(eh, t) :
                    eh.connpoints_via_ecatals[j][2][1]
                        = eh.connpoints_via_ecatals[i][2][1]})

\* the reports of Fresh(eh, t) whose connpoint no other outnumbers
Top(eh, t) ==
    {i \in Fresh(eh, t) :
        \A j \in Fresh(eh, t) : Tally(eh, t, j) <= Tally(eh, t, i)}

\* the ehypha whose turn it is in B's update()
Voting == efunguz["B"].ehyphae[efunguz["B"].pc.i][2]

\* C9: the vote of Ehypha.update() at time t, when some cached report is not
\* stale then, leaves connpoint at a connpoint that no other has more
\* non-stale reports than; stale reports are not counted; when all non-stale
\* reports agree it is theirs.
C9_EndpointVoting ==
    [][( /\ update_ehypha_vote("B")
         /\ Fresh(Voting, now) # {} )
       => /\ \E i \in Top(Voting, now) :
                 Voting'.connpoint = Voting.connpoints_via_ecatals[i][2][1]
          /\ (\A i, j \in Fresh(Voting, now) :
                  Voting.connpoints_via_ecatals[i][2][1]
                      = Voting.connpoints_via_ecatals[j][2][1])
             => \A i \in Fresh(Voting, now) :
                    Voting'.connpoint = Voting.connpoints_via_ecatals[i][2][1]
      ]_vars

\* update() has voted with three reports that are not stale: the first
\* names one connpoint, the two after it the other, which is now connpoint
\* and the only connection of the socket.
C9_Witness ==
    /\ efunguz["B"].pc.at = "drain"
    /\ Len(Voting.connpoints_via_ecatals) = 3
    /\ Fresh(Voting, efunguz["B"].pc.t) = {1, 2, 3}
    /\ Voting.connpoints_via_ecatals[1][2][1] = EA
    /\ Voting.connpoints_via_ecatals[2][2][1] = OtherEndpoint
    /\ Voting.connpoints_via_ecatals[3][2][1] = OtherEndpoint
    /\ Voting.connpoint = OtherEndpoint
    /\ Voting.subsock.conns = {OtherEndpoint}

\* the times from now to one past the last the clock reaches
Future == now..(ClockStart + MaxClock + 1)

\* C10: the vote of Ehypha.update() leaves connpoint at the connpoint of the
\* earliest report, in the order of the cache, among the non-stale reports
\* whose connpoint no other outnumbers; and a second update() on the same
\* cache leaves the ehypha as the first did, connection included, if the
\* same reports are non-stale at its time, or none is.
C10_TieBreak ==
    /\ [][( /\ update_ehypha_vote("B")
            /\ Fresh(Voting, now) # {} )
          => LET first == CHOOSE i \in Top(Voting, now) :
                              \A j \in Top(Voting, now) : i <= j
             IN  Voting'.connpoint =
                     Voting.connpoints_via_ecatals[first][2][1]
         ]_vars
    /\ [](\A i \in 1..Len(efunguz["B"].ehyphae) :
            \A t1 \in Future : \A t2 \in t1..(ClockStart + MaxClock + 1) :
              LET eh == efunguz["B"].ehyphae[i][2]
              IN  (Fresh(eh, t2) = Fresh(eh, t1) \/ Fresh(eh, t2) = {})
                  => vote(vote(eh, t1), t2) = vote(eh, t1))

\* update() has voted with the first report stale and the two after it
\* non-stale and naming different connpoints: connpoint is that of the
\* second report, not that of the first or the third.
C10_Witness ==
    /\ efunguz["B"].pc.at = "drain"
    /\ Len(Voting.connpoints_via_ecatals) = 3
    /\ Fresh(Voting, efunguz["B"].pc.t) = {2, 3}
    /\ Voting.connpoints_via_ecatals[1][2][1] = OtherEndpoint
    /\ Voting.connpoints_via_ecatals[2][2][1] = EA
    /\ Voting.connpoints_via_ecatals[3][2][1] = OtherEndpoint
    /\ Voting.connpoint = EA

\* C10 as stated: a second update() on the same cache, at any later time,
\* leaves connpoint where the first left it.
C10_Original ==
    \A i \in 1..Len(efunguz["B"].ehyphae) :
      \A t1 \in Future : \A t2 \in t1..(ClockStart + MaxClock + 1) :
        LET eh == efunguz["B"].ehyphae[i][2]
        IN  vote(vote(eh, t1), t2).connpoint = vote(eh, t1).connpoint

(***************************************************************************)
(* SpecDeact: an Ecataloguz that publishes when the clock has moved since  *)
(* the last publication, constructed with no key or with the keys of A    *)
(* and B and their comments, and with deactivate_interval 0, 1 or -1; A   *)
(* and B take a session with the pull socket and send beacons.             *)
(***************************************************************************)
CommentedKeys == << <<KA, Str("alice")>>, <<KB, Str("bob")>> >>

Beacon == ToBytesLE(DEF_EFUNGI_PUBSUB_PORT, 2)

InitDeact ==
    /\ now = ClockStart
    /\ efunguz = [p \in Peers |-> DefaultEfunguz]
    /\ hwm = MaxPipe
    /\ \E with_comments \in {<<>>, CommentedKeys} :
         \E deactivate_interval \in {0, 1, 0 - 1} :
           ecataloguz =
             Ecataloguz(with_comments, {}, DEF_ECATAL_BEACON_PORT,
                        DEF_ECATAL_PUBSUB_PORT, deactivate_interval, 0,
                        DEF_ECATAL_IDLE_INTERVAL)

NextDeact ==
    \/ run_begin
    \/ \E who \in {"A", "B"} : EcatalHandshake(who, ROUTING_ID_BEACON)
    \/ \E session \in ecataloguz.pullsock.sessions :
           ClientBeacon(session, Beacon)
    \/ run_loop
    \/ Tick

SpecDeact == InitDeact /\ [][NextDeact]_vars

\* the records the next pass of run() has when it comes to line 544
Drained ==
    beacons_drained(ecataloguz.beacon_recs, ecataloguz.pullsock.queue, now)

\* the next pass of run() publishes
Due == now - ecataloguz.t_last_pub > ecataloguz.publish_interval

\* the place of key in the dict recs
KeyIndex(recs, key) == CHOOSE i \in 1..Len(recs) : recs[i][1] = key

\* C11: a pass of run() that publishes at time t sends no message for a
\* record whose last beacon is more than deactivate_interval >= 0 before t
\* and leaves its connpoint empty, having emptied it before it sent the
\* message of any record later in the dict; every other record it leaves
\* as it was, so with deactivate_interval < 0 it empties none.
C11_Deactivation ==
    [][(run_loop /\ Due)
       => LET D     == ecataloguz.deactivate_interval
              recs  == Drained
              recs2 == ecataloguz'.beacon_recs
              sent  == ecataloguz'.pubout
              log   == ecataloguz'.publog
          IN  /\ Len(recs2) = Len(recs)
              /\ \A i \in 1..Len(recs) :
                   IF D >= 0 /\ now - recs[i][2][2] > D
                   THEN /\ recs2[i][1] = recs[i][1]
                        /\ recs2[i][2][1] = <<>>
                        /\ \A k \in 1..Len(sent) :
                               sent[k][1] # AsciiEncode(recs[i][1])
                        /\ \E k \in 1..Len(log) :
                               /\ log[k] = [op |-> "masked",
                                            key |-> recs[i][1]]
                               /\ \A j \in 1..Len(log) :
                                    ( /\ log[j].op = "sent"
                                      /\ KeyIndex(recs, log[j].key) > i )
                                    => k < j
                   ELSE recs2[i] = recs[i]
      ]_vars

\* A pass of run() with deactivate_interval 0 has sent the message of A's
\* record and then emptied the connpoint of B's record, whose beacon was
\* earlier.
C11_Witness ==
    /\ ecataloguz.deactivate_interval = 0
    /\ ecataloguz.publog = <<[op |-> "sent", key |-> KA],
                             [op |-> "masked", key |-> KB]>>
    /\ Len(ecataloguz.pubout) = 1
    /\ DictGet(ecataloguz.beacon_recs, KB)[1] = <<>>
    /\ DictGet(ecataloguz.beacon_recs, KB)[2] >= 0

\* C11 as stated: a pass of run() empties every stale record before it
\* sends any message.
C11_Original ==
    [][(run_loop /\ Due)
       => \A k, j \in 1..Len(ecataloguz'.publog) :
            ( /\ ecataloguz'.publog[k].op = "masked"
              /\ ecataloguz'.publog[j].op = "sent" )
            => k < j
      ]_vars

\* C12: a pass of run() that publishes at time t, under deactivate_interval
\* D >= 0, sends for every record with a beacon, the last at t0, the
\* message of its key and connpoint when t <= t0 + D, and no message of its
\* key when t > t0 + D.
C12_PublishedWhileActive ==
    [][(run_loop /\ Due /\ ecataloguz.deactivate_interval >= 0)
       => LET D    == ecataloguz.deactivate_interval
              recs == Drained
              sent == ecataloguz'.pubout
          IN  \A i \in 1..Len(recs) :
                recs[i][2][2] >= 0
                => IF now <= recs[i][2][2] + D
                   THEN /\ recs[i][2][1] # <<>>
                        /\ \E k \in 1..Len(sent) :
                               sent[k] = <<AsciiEncode(recs[i][1]),
                                           AsciiEncode(recs[i][2][1])>>
                   ELSE \A k \in 1..Len(sent) :
                            sent[k][1] # AsciiEncode(recs[i][1])
      ]_vars

\* Under deactivate_interval 1 a pass of run() has published A's record at
\* a time after that of its last beacon.
C12_Witness ==
    /\ ecataloguz.deactivate_interval = 1
    /\ DictHas(ecataloguz.beacon_recs, KA)
    /\ DictGet(ecataloguz.beacon_recs, KA)[2] >= 0
    /\ ecataloguz.t_last_pub > DictGet(ecataloguz.beacon_recs, KA)[2]
    /\ \E k \in 1..Len(ecataloguz.pubout) :
           ecataloguz.pubout[k] =
               <<AsciiEncode(KA),
                 AsciiEncode(DictGet(ecataloguz.beacon_recs, KA)[1])>>

\* C12 as stated: at a publication after t0 + D the record is published
\* with an empty connpoint.
C12_Original ==
    [][(run_loop /\ Due /\ ecataloguz.deactivate_interval >= 0)
       => \A i \in 1..Len(Drained) :
            ( /\ Drained[i][2][2] >= 0
              /\ now > Drained[i][2][2] + ecataloguz.deactivate_interval )
            => \E k \in 1..Len(ecataloguz'.pubout) :
                   ecataloguz'.pubout[k] =
                       <<AsciiEncode(Drained[i][1]), <<>>>>
      ]_vars

\* C13: a pass of run() keeps every record of beacon_recs at its place with
\* its key and its comment, whether it receives a beacon of that key or
\* deactivates the record, and the records it adds are those of the keys
\* of received beacons that had none, each with an empty comment.
C13_RecordsRetained ==
    [][run_loop
       => LET recs  == ecataloguz.beacon_recs
              recs2 == ecataloguz'.beacon_recs
          IN  /\ Len(recs2) >= Len(recs)
              /\ \A i \in 1..Len(recs) :
                   /\ recs2[i][1] = recs[i][1]
                   /\ recs2[i][2][3] = recs[i][2][3]
              /\ \A i \in (Len(recs) + 1)..Len(recs2) :
                   /\ recs2[i][2][3] = <<>>
                   /\ \E k \in 1..Len(ecataloguz.pullsock.queue) :
                          /\ ecataloguz.pullsock.queue[k].user_id = recs2[i][1]
                          /\ Len(ecataloguz.pullsock.queue[k].bytes) = 2
      ]_vars

\* The record of A, constructed with the comment "alice", has had a beacon
\* and has been deactivated, and the record of B has had a beacon: both
\* hold their comments.
C13_Witness ==
    /\ DictHas(ecataloguz.beacon_recs, KA)
    /\ DictHas(ecataloguz.beacon_recs, KB)
    /\ DictGet(ecataloguz.beacon_recs, KA) =
           <<<<>>, ClockStart, Str("alice")>>
    /\ DictGet(ecataloguz.beacon_recs, KB)[1] # <<>>
    /\ DictGet(ecataloguz.beacon_recs, KB)[3] = Str("bob")

(***************************************************************************)
(* SpecRendezvous: the catalogue K, peer A that sends it beacons and peer  *)
(* B that subscribes to it and has an ehypha for A's key with no           *)
(* connpoint.  A emits a beacon at every update() (beacon_interval 0) and  *)
(* K publishes at every pass (publish_interval -1) and deactivates no      *)
(* record.  The network carries A's beacon to the pull socket of K and     *)
(* the publications of K to its subscribers.                               *)
(***************************************************************************)
CatalBeaconEndpoint ==
    Str("tcp://10.0.1.") \o DecStr(KeySeed("K")) \o <<58>>
        \o DecStr(DEF_ECATAL_BEACON_PORT)

\* the session libzmq keeps for peer p once its handshake was accepted
SessionOf(p) == [user_id |-> PublicKey(p), peer_address |-> PeerAddress(p)]

\* The beacon A's push socket for K holds (lines 376-377) reaches the pull
\* socket of K, which has accepted p's handshake.
BeaconDelivery(p) ==
    /\ DictHas(efunguz[p].ecatals_to, KK)
    /\ LET pushsock == DictGet(efunguz[p].ecatals_to, KK)
       IN  /\ CatalBeaconEndpoint \in pushsock.conns
           /\ pushsock.out # <<>>
           /\ SessionOf(p) \in ecataloguz.pullsock.sessions
           /\ Len(ecataloguz.pullsock.queue) < hwm
           /\ ecataloguz' =
                [ecataloguz EXCEPT !.pullsock.queue =
                    Append(@, [bytes |-> pushsock.out[1],
                               user_id |-> SessionOf(p).user_id,
                               peer_address |-> SessionOf(p).peer_address])]
           /\ efunguz' =
                [efunguz EXCEPT ![p].ecatals_to =
                    DictPut(@, KK, [pushsock EXCEPT !.out = <<>>])]
    /\ UNCHANGED <<now, hwm>>

\* the queue of a SUB socket after the messages sent arrived: those beyond
\* the high-water mark are dropped
RECURSIVE Arrived(_, _)
Arrived(queue, sent) ==
    IF sent = <<>> \/ Len(queue) >= hwm THEN queue
    ELSE Arrived(Append(queue, [NoMsg EXCEPT !.frames = Head(sent)]),
                 Tail(sent))

\* What the last pass of run() sent on the pub socket (line 550) reaches
\* the subscribers of K whose handshake K has accepted.
PublicationDelivery ==
    /\ ecataloguz.pubout # <<>>
    /\ efunguz' =
         [q \in Peers |->
            [efunguz[q] EXCEPT !.ecatals_from =
                [i \in 1..Len(@) |->
                    IF /\ @[i][1] = KK
                       /\ CatalEndpoints["K"] \in @[i][2].conns
                       /\ SessionOf(q) \in ecataloguz.pubsock.sessions
                    THEN <<@[i][1],
                           [@[i][2] EXCEPT
                               !.queue = Arrived(@, ecataloguz.pubout)]>>
                    ELSE @[i]]]]
    /\ ecataloguz' = [ecataloguz EXCEPT !.pubout = <<>>]
    /\ UNCHANGED <<now, hwm>>

\* p, which has no session with the socket of K with that routing id yet,
\* starts the handshake of its connection.
Connecting(p, identity) ==
    /\ SessionOf(p) \notin
           (IF identity = ROUTING_ID_BEACON
            THEN ecataloguz.pullsock.sessions
            ELSE ecataloguz.pubsock.sessions)
    /\ EcatalHandshake(p, identity)

InitRendezvous ==
    /\ now = ClockStart
    /\ efunguz =
         [p \in Peers |->
            IF p = "A"
            THEN add_ecatal_to(
                     Efunguz({}, DEF_EFUNGI_PUBSUB_PORT, 0,
                             DEF_EFUNGI_ECATAL_FORGET_INTERVAL),
                     KK, CatalBeaconEndpoint).ef
            ELSE add_ecatal_from(
                     add_ehypha(DefaultEfunguz, KA, None, <<>>).ef,
                     KK, CatalEndpoints["K"]).ef]
    /\ hwm = MaxPipe
    /\ ecataloguz =
         Ecataloguz(<<>>, {}, DEF_ECATAL_BEACON_PORT, DEF_ECATAL_PUBSUB_PORT,
                    0 - 1, 0 - 1, DEF_ECATAL_IDLE_INTERVAL)

NextRendezvous ==
    \/ run_begin
    \/ Connecting("A", ROUTING_ID_BEACON)
    \/ Connecting("B", ROUTING_ID_PUBSUB)
    \/ run_loop
    \/ \E p \in Peers : update_sans_etales(p)
    \/ BeaconDelivery("A")
    \/ PublicationDelivery

SpecRendezvous == InitRendezvous /\ [][NextRendezvous]_vars

\* A and B keep calling update(), K starts and keeps passing through its
\* loop, the handshakes are made, and the network delivers.
FairRendezvous ==
    /\ WF_vars(run_begin)
    /\ WF_vars(run_loop)
    /\ WF_vars(Connecting("A", ROUTING_ID_BEACON))
    /\ WF_vars(Connecting("B", ROUTING_ID_PUBSUB))
    /\ \A p \in Peers : WF_vars(update_sans_etales(p))
    /\ SF_vars(BeaconDelivery("A"))
    /\ SF_vars(PublicationDelivery)

SpecRendezvousFair == SpecRendezvous /\ FairRendezvous

\* C14: with K running, A sending it beacons and B subscribed to it with
\* an ehypha for A's key that has no connpoint, if A keeps calling
\* update(), K keeps passing through its loop and the network delivers
\* (FairRendezvous), and B calls update() again and again, the connpoint
\* of B's ehypha eventually is tcp://<A's address>:<A's pubsub_port>.
C14_Rendezvous ==
    ([]<><<update_begin("B")>>_vars)
    => <>(BA.connpoint =
              TcpPrefix \o PeerAddress("A") \o <<58>>
                  \o DecStr(efunguz["A"].pubsub_port))

\* B's ehypha for A has the connpoint the catalogue reported and is
\* connected to it.
C14_Witness ==
    /\ BA.connpoint = Endpoint("A")
    /\ BA.subsock.conns = {Endpoint("A")}
    /\ Len(BA.connpoints_via_ecatals) = 1
    /\ BA.connpoints_via_ecatals[1][1] = KK

(***************************************************************************)
(* SpecBind: the constructors of the Efunguz of each peer and of the       *)
(* Ecataloguz run socket by socket while clients try to connect.  A        *)
(* client reaches a server socket only once it is bound; its handshake     *)
(* makes a ZAP request when the ZAP socket of that context is bound and    *)
(* is accepted unasked when it is not.                                     *)
(***************************************************************************)
InitBind ==
    /\ now = ClockStart
    /\ efunguz =
         [p \in Peers |->
            Efunguz_fields({}, DEF_EFUNGI_PUBSUB_PORT,
                           DEF_EFUNGI_BEACON_INTERVAL,
                           DEF_EFUNGI_ECATAL_FORGET_INTERVAL)]
    /\ hwm = MaxPipe
    /\ ecataloguz =
         Ecataloguz_fields(<<>>, {}, DEF_ECATAL_BEACON_PORT,
                           DEF_ECATAL_PUBSUB_PORT,
                           DEF_ECATAL_DEACTIVATE_INTERVAL,
                           DEF_ECATAL_PUBLISH_INTERVAL,
                           DEF_ECATAL_IDLE_INTERVAL)

\* Efunguz.__init__ of peer p goes on by one socket
do_Efunguz_init_step(p) ==
    /\ efunguz[p].init # "done"
    /\ efunguz' = [efunguz EXCEPT ![p] = Efunguz_init_step(@)]
    /\ UNCHANGED <<now, hwm, ecataloguz>>

\* Ecataloguz.__init__ goes on to its end
do_Ecataloguz_init_step ==
    /\ ecataloguz.init # "done"
    /\ ecataloguz' = Ecataloguz_init_step(ecataloguz)
    /\ UNCHANGED <<now, efunguz, hwm>>

\* The holder of key pair who connects to the pub socket of peer p.
InboundEfunguz(p, who) ==
    /\ efunguz[p].bound.pubsock
    /\ IF efunguz[p].bound.zapsock
       THEN ForeignHandshake(p, ROUTING_ID_PUBSUB, who)
       ELSE /\ efunguz' = [efunguz EXCEPT ![p].unchecked = @ \cup {who}]
            /\ UNCHANGED <<now, hwm, ecataloguz>>

\* The holder of key pair who connects to the socket of the Ecataloguz
\* with that routing id.
InboundEcataloguz(who, identity) ==
    /\ ecataloguz.pullsock.bound
    /\ ecataloguz.pubsock.bound
    /\ IF ecataloguz.zapsock_bound
       THEN EcatalHandshake(who, identity)
       ELSE /\ ecataloguz' =
                 [ecataloguz EXCEPT !.unchecked = @ \cup {<<who, identity>>}]
            /\ UNCHANGED <<now, efunguz, hwm>>

\* update() of a peer whose constructor has returned; it has no catalogue
\* and no ehypha
update_constructed(p) ==
    /\ efunguz[p].init = "done"
    /\ update_begin(p)

NextBind ==
    \/ \E p \in Peers : do_Efunguz_init_step(p)
    \/ do_Ecataloguz_init_step
    \/ run_begin
    \/ \E p \in Peers : InboundEfunguz(p, "C")
    \/ \E identity \in {ROUTING_ID_BEACON, ROUTING_ID_PUBSUB} :
           InboundEcataloguz("C", identity)
    \/ \E p \in Peers : update_constructed(p)
    \/ run_loop

SpecBind == InitBind /\ [][NextBind]_vars

\* C15: in every Efunguz the pub socket is bound only when the ZAP socket
\* is, in the Ecataloguz the pull and pub sockets are bound only when the
\* ZAP socket is, and no handshake with any of these sockets has found the
\* ZAP socket unbound.
C15_BindingOrder ==
    /\ \A p \in Peers :
         /\ efunguz[p].bound.pubsock => efunguz[p].bound.zapsock
         /\ efunguz[p].unchecked = {}
    /\ (ecataloguz.pullsock.bound \/ ecataloguz.pubsock.bound)
           => ecataloguz.zapsock_bound
    /\ ecataloguz.unchecked = {}

\* A handshake has reached the pub socket of A, and one the pull socket of
\* the running Ecataloguz, each queued as a ZAP request, while the
\* constructor of B has bound its ZAP socket and not yet its pub socket.
C15_Witness ==
    /\ efunguz["A"].bound.pubsock
    /\ Len(efunguz["A"].zapsock) > 0
    /\ efunguz["B"].bound.zapsock
    /\ ~efunguz["B"].bound.pubsock
    /\ ecataloguz.running
    /\ \E i \in 1..Len(ecataloguz.zapsock) :
           ecataloguz.zapsock[i].from = <<"C", ROUTING_ID_BEACON>>

\* C16: a call of update() receives no more messages than its SUB sockets
\* held when it was entered.
C16_BoundedDrain ==
    \A p \in Peers : efunguz[p].pc.left >= 0

\* C17: an etale that update() overwrites gets as t_in the timestamp that
\* this Ehypha.update() read when it started, and as t_out a time of the
\* common clock that is not in the future; so t_in >= t_out exactly when the
\* message was stamped no later than update() read its timestamp.
C17_ReceiptTime ==
    [][\A p \in Peers :
         update_ehypha_recv(p) =>
           LET i      == efunguz[p].pc.i
               t      == efunguz[p].pc.t
               before == efunguz[p].ehyphae[i][2].etales
               after  == efunguz'[p].ehyphae[i][2].etales
           IN  \A title \in DOMAIN after \cap DOMAIN before :
                 after[title] # before[title] =>
                   /\ after[title].t_in = t
                   /\ after[title].t_out <= now
                   /\ (after[title].t_in >= after[title].t_out)
                        <=> (after[title].t_out <= t)]_vars

\* B has just received an etale that A emitted after B's update() had read
\* its timestamp: the receipt is stamped earlier than the emission.
C17_Witness ==
    /\ HasBA
    /\ efunguz["B"].pc.at = "drain"
    /\ efunguz["B"].pc.msg.src.emitted
    /\ LET title == efunguz["B"].pc.msg.src.title
       IN  /\ title \in DOMAIN BA.etales
           /\ BA.etales[title].t_in = efunguz["B"].pc.t
           /\ BA.etales[title].t_out = efunguz["B"].pc.msg.src.t
           /\ BA.etales[title].t_in < BA.etales[title].t_out

\* C17 as stated: every etale that has received a message has
\* t_in >= t_out, whatever the interleaving.
C17_Original ==
    \A p \in Peers :
      \A i \in 1..Len(efunguz[p].ehyphae) :
        LET etales == efunguz[p].ehyphae[i][2].etales
        IN  \A title \in DOMAIN etales :
              etales[title].t_in # 0 - 1 =>
                etales[title].t_in >= etales[title].t_out

\* the state of a title in an ehypha
TitleState(eh, title) ==
    IF title \notin DOMAIN eh.etales THEN "absent"
    ELSE IF eh.etales[title].paused THEN "paused"
    ELSE "active"

\* C18: the status of add_etale, del_etale, pause_etale and resume_etale
\* depends only on whether the title is absent, active or paused; add_etale
\* of an absent title gives a new etale with t_out = t_in = -1; and a call
\* whose status is not OK leaves the ehypha (etales, pause flags, topic
\* filters) as it was.
C18_EtaleStatuses ==
    HasBA =>
      \A title \in Titles :
        LET st      == TitleState(BA, title)
            added   == add_etale(BA, title)
            deleted == del_etale(BA, title)
            paused  == pause_etale(BA, title)
            resumed == resume_etale(BA, title)
        IN  /\ added[2] = (IF st = "absent" THEN EW_OK
                           ELSE EW_ALREADY_PRESENT)
            /\ st = "absent" =>
                  /\ added[1].etales[title].t_out = 0 - 1
                  /\ added[1].etales[title].t_in = 0 - 1
                  /\ ~added[1].etales[title].paused
            /\ st # "absent" =>
                  added[1].etales[title] = BA.etales[title]
            /\ deleted[2] = (IF st = "absent" THEN EW_ALREADY_ABSENT
                             ELSE EW_OK)
            /\ st # "absent" => title \notin DOMAIN deleted[1].etales
            /\ paused[2] = (CASE st = "absent" -> EW_ABSENT
                              [] st = "paused" -> EW_ALREADY_PAUSED
                              [] st = "active" -> EW_OK)
            /\ st = "active" => paused[1].etales[title].paused
            /\ resumed[2] = (CASE st = "absent" -> EW_ABSENT
                               [] st = "paused" -> EW_OK
                               [] st = "active" -> EW_ALREADY_RESUMED)
            /\ st = "paused" => ~resumed[1].etales[title].paused
            /\ \A ret \in {added, deleted, paused, resumed} :
                  ret[2] # EW_OK => ret[1] = BA

\* B's ehypha holds a paused etale that has received a message, and another
\* title is absent: the calls that do not return OK leave the ehypha alone,
\* resume_etale and add_etale return OK.
C18_Witness ==
    /\ HasBA
    /\ \E title \in Titles :
         /\ TitleState(BA, title) = "paused"
         /\ BA.etales[title].t_in # 0 - 1
         /\ Topic(title) \notin BagToSet(BA.subsock.subs)
         /\ add_etale(BA, title) = <<BA, EW_ALREADY_PRESENT>>
         /\ pause_etale(BA, title) = <<BA, EW_ALREADY_PAUSED>>
         /\ resume_etale(BA, title)[2] = EW_OK
    /\ \E title \in Titles :
         /\ TitleState(BA, title) = "absent"
         /\ del_etale(BA, title) = <<BA, EW_ALREADY_ABSENT>>
         /\ resume_etale(BA, title) = <<BA, EW_ABSENT>>
         /\ add_etale(BA, title)[2] = EW_OK

(***************************************************************************)
(* SpecKeys: B names whitelist entries, ehyphae and catalogues by keys     *)
(* given in several forms.  A CURVE server key is 40 Z85 characters, so    *)
(* the ehyphae and the catalogues get forms of 40 characters or more; a    *)
(* whitelist entry is a string of any length.                              *)
(***************************************************************************)
\* the catalogue's key, and the same with a trailing newline
EcatalKeyForms == {KK, KK \o <<10>>}

\* the key forms, and strings shorter than a key: "", "abc", "abc ", "abd"
WhitelistForms ==
    KeyForms \cup {<<>>, Str("abc"), Str("abc "), Str("abd")}

do_add_ecatal_to(p, that_publickey, connpoint) ==
    Call(p, add_ecatal_to(efunguz[p], that_publickey, connpoint))

do_del_ecatal_to(p, that_publickey) ==
    Call(p, del_ecatal_to(efunguz[p], that_publickey))

InitKeys ==
    /\ now = ClockStart
    /\ efunguz = [p \in Peers |-> DefaultEfunguz]
    /\ hwm = MaxQueue
    /\ ecataloguz = DefaultEcataloguz

NextKeys ==
    \/ \E k \in WhitelistForms : do_add_whitelist_publickeys("B", {k})
    \/ \E k \in WhitelistForms : do_del_whitelist_publickeys("B", {k})
    \/ \E k \in KeyForms : do_add_ehypha("B", k, EA, <<>>)
    \/ \E k \in KeyForms : do_del_ehypha("B", k)
    \/ \E k \in EcatalKeyForms :
           do_add_ecatal_from("B", k, CatalEndpoints["K"])
    \/ \E k \in EcatalKeyForms : do_del_ecatal_from("B", k)
    \/ \E k \in EcatalKeyForms :
           do_add_ecatal_to("B", k, CatalBeaconEndpoint)
    \/ \E k \in EcatalKeyForms : do_del_ecatal_to("B", k)

SpecKeys == InitKeys /\ [][NextKeys]_vars

\* s and s2 differ only after character 40, or only by trailing spaces up
\* to length 40
SameUpTo40(s, s2) ==
    \A i \in 1..40 :
        (IF i <= Len(s) THEN s[i] ELSE 32) = (IF i <= Len(s2) THEN s2[i] ELSE 32)

\* C19: cut_pad_str(s, 40) is 40 characters long, is s when s is 40
\* characters long, and is its own normal form; and in every state B
\* reaches, two strings that differ only after character 40 or only by
\* trailing spaces do the same as the key of a whitelist entry (of the
\* Efunguz, at construction and later, and of the Ecataloguz), of an ehypha
\* and of a catalogue.
C19_KeyNormalization ==
    LET ef == efunguz["B"]
    IN  /\ \A s \in WhitelistForms \cup EcatalKeyForms :
              LET n == cut_pad_str(s, KEY_Z85_LEN)
              IN  /\ Len(n) = 40
                  /\ Len(s) = 40 => n = s
                  /\ cut_pad_str(n, KEY_Z85_LEN) = n
                  /\ SameUpTo40(s, n)
        /\ \A s, s2 \in WhitelistForms :
              SameUpTo40(s, s2) =>
                /\ add_whitelist_publickeys(ef, {s})
                       = add_whitelist_publickeys(ef, {s2})
                /\ del_whitelist_publickeys(ef, {s})
                       = del_whitelist_publickeys(ef, {s2})
                /\ Efunguz_fields({s}, ef.pubsub_port, ef.beacon_interval,
                                  ef.ecatal_forget_interval)
                       = Efunguz_fields({s2}, ef.pubsub_port,
                                        ef.beacon_interval,
                                        ef.ecatal_forget_interval)
                /\ Ecataloguz_fields(<< <<s, Str("alice")>> >>, {s},
                                     DEF_ECATAL_BEACON_PORT,
                                     DEF_ECATAL_PUBSUB_PORT, 0, 0, 0)
                       = Ecataloguz_fields(<< <<s2, Str("alice")>> >>, {s2},
                                           DEF_ECATAL_BEACON_PORT,
                                           DEF_ECATAL_PUBSUB_PORT, 0, 0, 0)
        /\ \A s, s2 \in KeyForms :
              SameUpTo40(s, s2) =>
                /\ add_ehypha(ef, s, EA, <<>>) = add_ehypha(ef, s2, EA, <<>>)
                /\ del_ehypha(ef, s) = del_ehypha(ef, s2)
        /\ \A s, s2 \in EcatalKeyForms :
              SameUpTo40(s, s2) =>
                /\ add_ecatal_from(ef, s, CatalEndpoints["K"])
                       = add_ecatal_from(ef, s2, CatalEndpoints["K"])
                /\ del_ecatal_from(ef, s) = del_ecatal_from(ef, s2)
                /\ add_ecatal_to(ef, s, CatalBeaconEndpoint)
                       = add_ecatal_to(ef, s2, CatalBeaconEndpoint)
                /\ del_ecatal_to(ef, s) = del_ecatal_to(ef, s2)

\* B's whitelist holds A's key and "abc" padded to 40 characters, B has an
\* ehypha for A and both catalogue sockets for K; the other form of each
\* key names the entry that is there.
C19_Witness ==
    LET ef == efunguz["B"]
    IN  /\ ef.whitelist_publickeys = {KA, Str("abc") \o Spaces(37)}
        /\ del_whitelist_publickeys(ef, {Str("abc "), KA \o <<10>>})
               .whitelist_publickeys = {}
        /\ DictHas(ef.ehyphae, KA)
        /\ add_ehypha(ef, KA \o <<10>>, EA, <<>>).status = EW_ALREADY_PRESENT
        /\ DictHas(ef.ecatals_from, KK)
        /\ del_ecatal_from(ef, KK \o <<10>>).status = EW_OK
        /\ DictHas(ef.ecatals_to, KK)
        /\ add_ecatal_to(ef, KK \o <<10>>, CatalBeaconEndpoint).status
               = EW_ALREADY_PRESENT

\* the keys of the ehyphae of ef, as the topics subscribed for them
EhyphaTopics(ef) ==
    {AsciiEncode(ef.ehyphae[j][1]) : j \in 1..Len(ef.ehyphae)}

\* C20: whatever ehyphae and catalogue subscribers B has added and deleted,
\* every SUB socket of ecatals_from is subscribed to the keys of the current
\* ehyphae, once each, and to nothing else.
C20_CatalogueSubscriptions ==
    \A p \in Peers :
      \A i \in 1..Len(efunguz[p].ecatals_from) :
        efunguz[p].ecatals_from[i][2].subs = SetToBag(EhyphaTopics(efunguz[p]))

\* B has made three ehyphae and has two of them left, for A and for B's own
\* key, and its catalogue subscriber is subscribed to these two keys.
C20_Witness ==
    LET ef == efunguz["B"]
    IN  /\ ef.objects = 3
        /\ Len(ef.ehyphae) = 2
        /\ EhyphaTopics(ef) = {KA, KB}
        /\ Len(ef.ecatals_from) = 1
        /\ ef.ecatals_from[1][1] = KK
        /\ ef.ecatals_from[1][2].subs = SetToBag({KA, KB})
        /\ del_ehypha(ef, KA \o <<10>>).ef.ecatals_from[1][2].subs
               = SetToBag({KB})

\* the endpoints a SUB socket is connected to when the connpoint is connpoint
ConnsFor(connpoint) == IF connpoint = None THEN {} ELSE {connpoint}

\* C21: the SUB socket of every ehypha is connected to its connpoint and to
\* nothing else (to nothing when connpoint is None); set_connpoint of the
\* current connpoint changes nothing, and set_connpoint of another value
\* leaves the socket connected to the new value only.
C21_ConnpointConsistency ==
    \A p \in Peers :
      \A i \in 1..Len(efunguz[p].ehyphae) :
        LET eh == efunguz[p].ehyphae[i][2]
        IN  /\ eh.subsock.conns = ConnsFor(eh.connpoint)
            /\ set_connpoint(eh, eh.connpoint) = eh
            /\ \A connpoint \in {None, EA, OtherEndpoint} :
                  LET after == set_connpoint(eh, connpoint)
                  IN  /\ after.connpoint = connpoint
                      /\ after.subsock.conns = ConnsFor(connpoint)
                      /\ after.etales = eh.etales
                      /\ after.connpoints_via_ecatals
                             = eh.connpoints_via_ecatals

\* B's update() has just voted on the ehypha for A with three reports in
\* the cache, K's of A's endpoint first: the connpoint is the endpoint that
\* L and M report, and the socket is connected to that one only.
C21_Witness ==
    /\ efunguz["B"].pc.at = "drain"
    /\ Len(Voting.connpoints_via_ecatals) = 3
    /\ Voting.connpoints_via_ecatals[1][2][1] = EA
    /\ Voting.connpoint = OtherEndpoint
    /\ Voting.subsock.conns = {OtherEndpoint}
    /\ set_connpoint(Voting, EA).subsock.conns = {EA}

(***************************************************************************)
(* SpecReport: B has an ehypha for A and a subscriber of catalogue K,      *)
(* which publishes well-formed reports about A and messages of other       *)
(* shapes; B deletes the ehypha and adds it again.                         *)
(***************************************************************************)
\* what K publishes: two reports; one frame; three frames; a key that is
\* not ASCII; a connpoint that is not tcp
ReportFrames ==
    { <<KA, EA>>,
      <<KA, OtherEndpoint>>,
      <<KA>>,
      <<KA, EA, <<>>>>,
      <<KA \o <<200>>, EA>>,
      <<KA, Str("udp://10.0.0.4:60847")>> }

\* messages update() is tried on besides: a key of 41 characters; the key
\* of no ehypha; connpoints that are not ASCII, too short
OtherFrames ==
    { <<KA \o Str("x"), EA>>,
      <<KB, EA>>,
      <<KA, TcpPrefix \o <<200>>>>,
      <<KA, Str("tcp:/")>> }

InitReport ==
    /\ now = ClockStart
    /\ efunguz =
         [p \in Peers |->
            IF p = "B"
            THEN add_ecatal_from(add_ehypha(DefaultEfunguz, KA, None, <<>>).ef,
                                 KK, CatalEndpoints["K"]).ef
            ELSE DefaultEfunguz]
    /\ hwm = MaxPipe
    /\ ecataloguz = DefaultEcataloguz

NextReport ==
    \/ \E frames \in ReportFrames : EcatalPublish("K", frames)
    \/ update_sans_etales("B")
    \/ do_add_ehypha("B", KA, None, <<>>)
    \/ do_del_ehypha("B", KA)
    \/ Tick

SpecReport == InitReport /\ [][NextReport]_vars

\* frames is a report about an ehypha of the dict: two frames, the first
\* 40 ASCII characters that are the key of an ehypha, the second ASCII and
\* beginning with tcp://
ValidReport(ehyphae, frames) ==
    /\ Len(frames) = 2
    /\ \A i \in 1..Len(frames[1]) : frames[1][i] < 128
    /\ Len(frames[1]) = 40
    /\ \E j \in 1..Len(ehyphae) : ehyphae[j][1] = frames[1]
    /\ \A i \in 1..Len(frames[2]) : frames[2][i] < 128
    /\ Len(frames[2]) >= 6
    /\ SubSeq(frames[2], 1, 6) = <<116, 99, 112, 58, 47, 47>>

\* the dict after the report frames of the catalogue ec_key at time t, when
\* it is valid, and the dict itself when it is not
Reported(ehyphae, ec_key, frames, t) ==
    IF ValidReport(ehyphae, frames)
    THEN [j \in 1..Len(ehyphae) |->
            IF ehyphae[j][1] = frames[1]
            THEN <<ehyphae[j][1],
                   [ehyphae[j][2] EXCEPT !.connpoints_via_ecatals =
                        DictPut(@, ec_key, <<frames[2], t>>)]>>
            ELSE ehyphae[j]]
    ELSE ehyphae

\* C22: a catalogue message that update() receives, and every message of
\* ReportFrames and OtherFrames in every state B reaches, puts
\* (endpoint, t), t the time update() read when it began, under the
\* catalogue's key in the cache of the ehypha it names when it is a valid
\* report, and changes no ehypha when it is not; and every cached endpoint
\* begins with tcp://.
C22_RendezvousValidation ==
    /\ [][update_ecatal_recv("B") =>
            LET ef     == efunguz["B"]
                ec_key == ef.ecatals_from[ef.pc.i][1]
                frames == efunguz'["B"].pc.msg.frames
            IN  efunguz'["B"].ehyphae
                    = Reported(ef.ehyphae, ec_key, frames, ef.pc.t)]_vars
    /\ [](\A frames \in ReportFrames \cup OtherFrames :
            rendezvous(efunguz["B"].ehyphae, KK, frames, now)
                = Reported(efunguz["B"].ehyphae, KK, frames, now))
    /\ [](\A p \in Peers :
            \A j \in 1..Len(efunguz[p].ehyphae) :
              LET cache == efunguz[p].ehyphae[j][2].connpoints_via_ecatals
              IN  \A i \in 1..Len(cache) :
                    SubSeq(cache[i][2][1], 1, 6) = <<116, 99, 112, 58, 47, 47>>)

\* B's update() has just received a message that is no valid report (its
\* connpoint is not tcp) while the cache holds K's earlier report of A's
\* endpoint, taken at an earlier time than this update() began.
C22_Witness ==
    /\ efunguz["B"].pc.at = "ecatals"
    /\ efunguz["B"].pc.msg.frames = <<KA, Str("udp://10.0.0.4:60847")>>
    /\ HasBA
    /\ BA.connpoints_via_ecatals = << <<KK, <<EA, ClockStart>> >> >>
    /\ efunguz["B"].pc.t > ClockStart

(***************************************************************************)
(* SpecBeacon: A and B, made with the same beacon_interval (0, 1, 2 or     *)
(* negative), add and delete their push sockets to the catalogues K and L  *)
(* and call update() while the clock moves.  They have no subscriber       *)
(* socket, so update() is done with its first step.                        *)
(***************************************************************************)
PushEndpoints ==
    [c \in {"K", "L"} |->
        Str("tcp://10.0.1.") \o DecStr(KeySeed(c)) \o <<58>>
            \o DecStr(DEF_ECATAL_BEACON_PORT)]

InitBeacon ==
    /\ now = ClockStart
    /\ \E beacon_interval \in {0, 1, 2, 0 - 1} :
         efunguz = [p \in Peers |->
                      Efunguz({}, DEF_EFUNGI_PUBSUB_PORT, beacon_interval,
                              DEF_EFUNGI_ECATAL_FORGET_INTERVAL)]
    /\ hwm = MaxQueue
    /\ ecataloguz = DefaultEcataloguz

NextBeacon ==
    \/ \E p \in {"A", "B"} : update_begin(p)
    \/ \E p \in {"A", "B"} : \E c \in {"K", "L"} :
           do_add_ecatal_to(p, PublicKey(c), PushEndpoints[c])
    \/ \E p \in {"A", "B"} : \E c \in {"K", "L"} :
           do_del_ecatal_to(p, PublicKey(c))
    \/ Tick

SpecBeacon == InitBeacon /\ [][NextBeacon]_vars

\* C23: update() at time now sends the port, two bytes little-endian, on
\* every push socket and sets t_last_beacon to now if
\* now - t_last_beacon >= beacon_interval, and otherwise leaves the push
\* sockets and t_last_beacon as they were; the first update() after
\* construction emits, and a later beacon is at least beacon_interval after
\* the one before.
C23_BeaconCadence ==
    [][\A p \in Peers :
         update_begin(p) =>
           LET ef    == efunguz[p]
               after == efunguz'[p]
               due   == now - ef.t_last_beacon >= ef.beacon_interval
           IN  /\ due =>
                     /\ after.t_last_beacon = now
                     /\ Len(after.ecatals_to) = Len(ef.ecatals_to)
                     /\ \A i \in 1..Len(after.ecatals_to) :
                           after.ecatals_to[i][2].out
                             = << <<ef.pubsub_port % 256,
                                    ef.pubsub_port \div 256>> >>
               /\ ~due =>
                     /\ after.t_last_beacon = ef.t_last_beacon
                     /\ after.ecatals_to = ef.ecatals_to
               /\ ef.t_last_beacon = 0 => due
               /\ after.t_last_beacon # ef.t_last_beacon /\ ef.t_last_beacon # 0
                     => after.t_last_beacon - ef.t_last_beacon
                            >= ef.beacon_interval]_vars

\* A, with beacon_interval 1, has sent a beacon to K and to L in an
\* update() after its first one, and B, added to K since its last beacon,
\* has sent none there.
C23_Witness ==
    /\ efunguz["A"].beacon_interval = 1
    /\ efunguz["A"].t_last_beacon = ClockStart + 1
    /\ Len(efunguz["A"].ecatals_to) = 2
    /\ \A i \in 1..2 :
         efunguz["A"].ecatals_to[i][2].out
             = <<ToBytesLE(DEF_EFUNGI_PUBSUB_PORT, 2)>>
    /\ efunguz["B"].t_last_beacon = ClockStart
    /\ Len(efunguz["B"].ecatals_to) = 1
    /\ efunguz["B"].ecatals_to[1][2].out = <<>>

(***************************************************************************)
(* SpecTick: B has an ehypha for A without connpoint, with the etale of    *)
(* the empty title, and a subscriber of catalogue K.  K publishes A's      *)
(* endpoint or another one as the connpoint of A, A emits the etale, and   *)
(* both call update().                                                     *)
(***************************************************************************)
InitTick ==
    /\ now = ClockStart
    /\ efunguz =
         [p \in Peers |->
            IF p = "B"
            THEN LET e0 == add_ehypha(DefaultEfunguz, KA, None, <<>>).ef
                     e1 == [e0 EXCEPT !.ehyphae =
                               DictPut(@, KA,
                                       add_etale(DictGet(@, KA), <<>>)[1])]
                 IN  add_ecatal_from(e1, KK, CatalEndpoints["K"]).ef
            ELSE DefaultEfunguz]
    /\ hwm = MaxPipe
    /\ ecataloguz = DefaultEcataloguz

NextTick ==
    \/ \E connpoint \in {EA, OtherEndpoint} :
           EcatalPublish("K", <<AsciiEncode(KA), AsciiEncode(connpoint)>>)
    \/ Handshake("B", KA)
    \/ do_emit_etale("A", <<>>, <<>>)
    \/ \E p \in {"A", "B"} : update(p)

SpecTick == InitTick /\ [][NextTick]_vars

\* C24: in B's update(), no catalogue message is received once the update()
\* of an ehypha has begun, and the catalogue loop is left with nothing to
\* receive; the drain of an ehypha is entered by its vote and in no other
\* way; and the vote that finds reports in the cache, the ones received in
\* this update() among them (none is stale: the clock stands still here),
\* leaves the ehypha connected to the endpoint reported, before any etale
\* is received.
C24_TickOrdering ==
    [][LET ef    == efunguz["B"]
           after == efunguz'["B"]
       IN  /\ ef.pc.at \in {"ehyphae", "drain"} =>
                 /\ after.pc.at # "ecatals"
                 /\ \A j \in 1..Len(ef.ehyphae) :
                       after.ehyphae[j][2].connpoints_via_ecatals
                           = ef.ehyphae[j][2].connpoints_via_ecatals
           /\ ef.pc.at = "ecatals" /\ after.pc.at # "ecatals" =>
                 ~poll(ef.ecatals_from[ef.pc.i][2])
           /\ after.pc.at = "drain" /\ ef.pc.at # "drain" =>
                 /\ ef.pc.at = "ehyphae"
                 /\ after.pc.left = ef.pc.left
                 /\ LET eh    == ef.ehyphae[ef.pc.i][2]
                        voted == after.ehyphae[ef.pc.i][2]
                        cache == eh.connpoints_via_ecatals
                    IN  /\ voted.etales = eh.etales
                        /\ cache # <<>> =>
                              /\ voted.connpoint = cache[1][2][1]
                              /\ voted.subsock.conns = {cache[1][2][1]}
                        /\ cache = <<>> => voted = eh
           /\ after.pc.at = "drain" /\ ef.pc.at = "drain" =>
                 /\ after.ehyphae[ef.pc.i][2].connpoint
                        = ef.ehyphae[ef.pc.i][2].connpoint
                 /\ after.ehyphae[ef.pc.i][2].subsock.conns
                        = ef.ehyphae[ef.pc.i][2].subsock.conns]_vars

\* B's update() has received K's report of the other endpoint, has voted
\* the ehypha, which had received an etale from A's endpoint before, over to
\* that endpoint, and is in the drain.
C24_Witness ==
    /\ efunguz["B"].pc.at = "drain"
    /\ BA.connpoints_via_ecatals = << <<KK, <<OtherEndpoint, ClockStart>> >> >>
    /\ BA.connpoint = OtherEndpoint
    /\ BA.subsock.conns = {OtherEndpoint}
    /\ BA.etales[<<>>].t_in # 0 - 1

\* C25: the SUB socket of B's ehypha holds the topic of a title, once, if
\* the title is in the map and its etale is not paused, and does not hold
\* it otherwise; and del_etale and pause_etale, when they unsubscribe
\* (lines 162 and 173), find the topic subscribed.
C25_TopicFilter ==
    /\ [](HasBA =>
            \A title \in Titles :
              CopiesIn(Topic(title), BA.subsock.subs)
                  = IF TitleState(BA, title) = "active" THEN 1 ELSE 0)
    /\ [][\A title \in Titles :
            /\ do_del_etale("B", KA, title)
                  /\ del_etale(BA, title)[2] = EW_OK
                  => CopiesIn(Topic(title), BA.subsock.subs) >= 1
            /\ do_pause_etale("B", KA, title)
                  /\ pause_etale(BA, title)[2] = EW_OK
                  => CopiesIn(Topic(title), BA.subsock.subs) >= 1]_vars

\* the report rec = <<connpoint, t_upd>> is older than forget at time t
Stale(forget, rec, t) == forget >= 0 /\ t - rec[2] > forget

\* C26: the vote of an ehypha whose cache is empty, or whose
\* ecatal_forget_interval is not negative and whose every report is older
\* than it, changes nothing of the ehypha: connpoint, the socket and the
\* cache, stale reports included, stay; no vote changes the cache; and a
\* report that is stale stays stale for as long as it is in the cache.
C26_EndpointForget ==
    /\ [][update_ehypha_vote("B") =>
            LET eh    == Voting
                voted == efunguz'["B"].ehyphae[efunguz["B"].pc.i][2]
                cache == eh.connpoints_via_ecatals
            IN  /\ voted.connpoints_via_ecatals = cache
                /\ (\A i \in 1..Len(cache) :
                        Stale(eh.ecatal_forget_interval, cache[i][2], now))
                      => voted = eh]_vars
    /\ [][\A j \in 1..Len(efunguz["B"].ehyphae) :
            LET eh    == efunguz["B"].ehyphae[j][2]
                after == efunguz'["B"].ehyphae[j][2]
            IN  \A i \in 1..Len(eh.connpoints_via_ecatals) :
                  /\ Stale(eh.ecatal_forget_interval,
                           eh.connpoints_via_ecatals[i][2], now)
                  /\ i <= Len(after.connpoints_via_ecatals)
                  /\ after.connpoints_via_ecatals[i]
                         = eh.connpoints_via_ecatals[i]
                  => Stale(after.ecatal_forget_interval,
                           after.connpoints_via_ecatals[i][2], now')]_vars

\* B's update() has just voted on the ehypha for A, which is connected to
\* an endpoint by an earlier vote, while every report of its cache was
\* stale: the connpoint and the reports are still there.
C26_Witness ==
    /\ efunguz["B"].pc.at = "drain"
    /\ Voting.ecatal_forget_interval >= 0
    /\ Len(Voting.connpoints_via_ecatals) >= 2
    /\ \A i \in 1..Len(Voting.connpoints_via_ecatals) :
         Stale(Voting.ecatal_forget_interval,
               Voting.connpoints_via_ecatals[i][2], efunguz["B"].pc.t)
    /\ Voting.connpoint # None
    /\ Voting.subsock.conns = {Voting.connpoint}

\* C27: a pass of the loop of Ehypha.update() that reads a message of
\* emit_etale for a title that is present and not paused sets parts, t_out
\* and t_in of that etale in the one step, to the parts and the time of the
\* emission and the time update() read; no pass changes another etale, a
\* pause flag, the set of titles or the connpoint; and in every state an
\* etale has t_in = -1 exactly when it has t_out = -1, and then no parts.
C27_AtomicEtaleUpdate ==
    /\ [][update_ehypha_recv("B") =>
            LET msg    == Received("B")
                before == BA.etales
                after  == efunguz'["B"].ehyphae[efunguz["B"].pc.i][2]
            IN  /\ DOMAIN after.etales = DOMAIN before
                /\ after.connpoint = BA.connpoint
                /\ after.subsock.conns = BA.subsock.conns
                /\ \A title \in DOMAIN before :
                      IF /\ msg.src.emitted
                         /\ msg.src.title = title
                         /\ ~before[title].paused
                      THEN after.etales[title]
                             = [parts |-> msg.src.parts,
                                t_out |-> msg.src.t,
                                t_in |-> efunguz["B"].pc.t,
                                paused |-> FALSE]
                      ELSE after.etales[title] = before[title]]_vars
    /\ [](\A p \in Peers :
            \A i \in 1..Len(efunguz[p].ehyphae) :
              LET etales == efunguz[p].ehyphae[i][2].etales
              IN  \A title \in DOMAIN etales :
                    /\ (etales[title].t_in = 0 - 1)
                          <=> (etales[title].t_out = 0 - 1)
                    /\ etales[title].t_in = 0 - 1
                          => etales[title].parts = <<>>)

\* B holds both etales; update() has just received the one with two parts
\* and stored it, and the other, which has received nothing, is as
\* add_etale made it.
C27_Witness ==
    /\ HasBA
    /\ efunguz["B"].pc.at = "drain"
    /\ efunguz["B"].pc.msg.src.emitted
    /\ efunguz["B"].pc.msg.src.title = <<0, 233>>
    /\ DOMAIN BA.etales = Titles
    /\ BA.etales[<<0, 233>>].parts = << <<>>, <<1, 2>> >>
    /\ BA.etales[<<0, 233>>].t_in = efunguz["B"].pc.t
    /\ BA.etales[<<0, 233>>].t_out = efunguz["B"].pc.msg.src.t
    /\ BA.etales[<<>>] = [parts |-> <<>>, t_out |-> 0 - 1, t_in |-> 0 - 1,
                          paused |-> FALSE]

\* C28: a message of emit_etale that Ehypha.update() reads for a title that
\* is present and not paused replaces what the etale held, whatever it
\* held; when the drain ends, the etale of the last such message holds its
\* parts and its time; and t_out of an etale is never made smaller by
\* update().
C28_LastWriterWins ==
    /\ [][update_ehypha_recv("B") =>
            LET msg    == Received("B")
                before == BA.etales
                after  == efunguz'["B"].ehyphae[efunguz["B"].pc.i][2].etales
            IN  /\ \A title \in DOMAIN before \cap DOMAIN after :
                      after[title].t_out >= before[title].t_out
                /\ /\ msg.src.emitted
                   /\ msg.src.title \in DOMAIN before
                   /\ ~before[msg.src.title].paused
                   => /\ after[msg.src.title].parts = msg.src.parts
                      /\ after[msg.src.title].t_out = msg.src.t
                      /\ msg.src.t >= before[msg.src.title].t_out]_vars
    /\ [][update_ehypha_done("B") =>
            LET msg == efunguz["B"].pc.msg
            IN  /\ msg # NoMsg
                /\ msg.src.emitted
                /\ msg.src.title \in DOMAIN BA.etales
                /\ ~BA.etales[msg.src.title].paused
                => /\ BA.etales[msg.src.title].parts = msg.src.parts
                   /\ BA.etales[msg.src.title].t_out = msg.src.t]_vars

\* B's update() has stored an etale that A emitted after the clock moved,
\* and another message is queued behind it for the same drain.
C28_Witness ==
    /\ HasBA
    /\ efunguz["B"].pc.at = "drain"
    /\ efunguz["B"].pc.msg.src.emitted
    /\ efunguz["B"].pc.msg.src.title = <<>>
    /\ <<>> \in DOMAIN BA.etales
    /\ BA.etales[<<>>].t_out = efunguz["B"].pc.msg.src.t
    /\ Len(BA.subsock.queue) >= 1
    /\ BA.subsock.queue[1].src.emitted
    /\ BA.subsock.queue[1].src.title = <<>>
    /\ BA.subsock.queue[1].src.t > BA.etales[<<>>].t_out

(***************************************************************************)
(* SpecOwner: B adds and deletes the ehypha for A and the subscribers of   *)
(* the catalogues K and L, which report A's endpoint (K) and another one   *)
(* (L), and calls update().                                                *)
(***************************************************************************)
InitOwner ==
    /\ now = ClockStart
    /\ efunguz = [p \in Peers |-> DefaultEfunguz]
    /\ hwm = MaxPipe
    /\ ecataloguz = DefaultEcataloguz

NextOwner ==
    \/ do_add_ehypha("B", KA, None, <<>>)
    \/ do_del_ehypha("B", KA)
    \/ \E c \in {"K", "L"} :
           do_add_ecatal_from("B", PublicKey(c), CatalEndpoints[c])
    \/ \E c \in {"K", "L"} : do_del_ecatal_from("B", PublicKey(c))
    \/ \E r \in {<<"K", EA>>, <<"L", OtherEndpoint>>} :
           EcatalPublish(r[1], <<AsciiEncode(KA), AsciiEncode(r[2])>>)
    \/ update_sans_etales("B")

SpecOwner == InitOwner /\ [][NextOwner]_vars

\* the keys of a dict, as a set
KeySet(d) == {d[i][1] : i \in 1..Len(d)}

\* C29: the catalogues that have a report in the cache of an ehypha of the
\* dict are catalogues of ecatals_from; and del_ecatal_from(k) leaves no
\* report of k in any ehypha.
C29_VoteCacheOwnership ==
    /\ [](\A p \in Peers :
            \A j \in 1..Len(efunguz[p].ehyphae) :
              KeySet(efunguz[p].ehyphae[j][2].connpoints_via_ecatals)
                  \subseteq KeySet(efunguz[p].ecatals_from))
    /\ [][\A c \in {"K", "L"} :
            do_del_ecatal_from("B", PublicKey(c)) =>
              /\ PublicKey(c) \notin KeySet(efunguz'["B"].ecatals_from)
              /\ \A j \in 1..Len(efunguz'["B"].ehyphae) :
                    PublicKey(c) \notin
                      KeySet(efunguz'["B"].ehyphae[j][2]
                                 .connpoints_via_ecatals)]_vars

\* B's ehypha for A is connected to A's endpoint, which only K reports, by a
\* vote; K's subscriber has been deleted since, and the cache holds the
\* report of L and no other.
C29_Witness ==
    /\ HasBA
    /\ BA.connpoint = EA
    /\ KeySet(efunguz["B"].ecatals_from) = {PublicKey("L")}
    /\ BA.connpoints_via_ecatals
           = << <<PublicKey("L"), <<OtherEndpoint, ClockStart>> >> >>
=============================================================================
